---- MODULE Spec2Model ----
(***************************************************************************)
(* AMF3 codec of amfts: Writer / Reader byte primitives, the U29 codec,    *)
(* AMF3 type inference, AMFEncoder and AMFDecoder with their reference     *)
(* tables.                                                                 *)
(*                                                                         *)
(* Host values are records tagged by t:                                    *)
(*   [t |-> "null"], [t |-> "undef"], [t |-> "bool", b], [t |-> "num", n]  *)
(*   (an integral JS number), [t |-> "dbl", bits] (any other JS number,    *)
(*   as its IEEE-754 big-endian bytes), [t |-> "str", s] (s a sequence of  *)
(*   code points), [t |-> "ref", id] (an object, by identity: id is its    *)
(*   place in a heap) and [t |-> "forced", value, type] (ForcedTypeValue). *)
(* Heap objects are records tagged by k: "array" (a JS Array, f its        *)
(* elements), "object" (a plain object, f its own enumerable properties    *)
(* as <<key, value>> in insertion order), "serializable" and               *)
(* "externalizable" (instances of those classes, f as for "object",        *)
(* __class and __dynamic included), "date" (tm) and "bytes" (by).          *)
(***************************************************************************)
EXTENDS Integers, Sequences, FiniteSets, TLC

VARIABLES
    heap,       \* the host's object graph: object id -> object
    amf3Externalizables,    \* AMFDecoder's static registry: class name -> reader
    encoder,    \* the AMFEncoder instance (Writer fields and reference tables)
    decoder,    \* the AMFDecoder instance (Reader fields and reference tables)
    returned,   \* what the last read / decode call returned
    arg,        \* the argument of the last write / encode call
    history,    \* the calls made on the encoder so far
    pc          \* which object the driver is working on

vars == <<heap, amf3Externalizables, encoder, decoder, returned, arg, history, pc>>

-----------------------------------------------------------------------------
(* JavaScript's bitwise operators on 32-bit integers (two's complement).   *)

RECURSIVE BitAnd(_, _)
BitAnd(a, b) ==
    IF a = 0 \/ b = 0 THEN 0
    ELSE IF a = -1 THEN b
    ELSE IF b = -1 THEN a
    ELSE (IF a % 2 = 1 /\ b % 2 = 1 THEN 1 ELSE 0) + 2 * BitAnd(a \div 2, b \div 2)

RECURSIVE BitOr(_, _)
BitOr(a, b) ==
    IF a = 0 THEN b
    ELSE IF b = 0 THEN a
    ELSE IF a = -1 \/ b = -1 THEN -1
    ELSE (IF a % 2 = 1 \/ b % 2 = 1 THEN 1 ELSE 0) + 2 * BitOr(a \div 2, b \div 2)

Shl(a, k) == a * (2 ^ k)

Sar(a, k) == a \div (2 ^ k)

-----------------------------------------------------------------------------
(* Writer (src/src/writer.ts).  The chunks are kept concatenated, which is *)
(* what getBuffer() returns.                                               *)

NoThrow == "none"

GetLength(w) == w.totalLength

GetBuffer(w) == w.chunks

Throw(o, err) == IF o.threw = NoThrow THEN [o EXCEPT !.threw = err] ELSE o

\* write(value: Uint8Array): the chunk is pushed as it is
WriteChunk(w, bytes) ==
    IF w.threw # NoThrow THEN w
    ELSE [w EXCEPT !.chunks = @ \o bytes, !.totalLength = @ + Len(bytes)]

\* write(value: number) and write(value: number[]): every element & 0xff
Write(w, values) ==
    WriteChunk(w, [i \in 1..Len(values) |-> BitAnd(values[i], 255)])

WriteByte(w, value) == Write(w, <<BitAnd(value, 255)>>)

ClearWriter(w) == [w EXCEPT !.chunks = <<>>, !.totalLength = 0]

Int29Bytes(value) ==
    LET v == BitAnd(value, 536870911)
    IN  IF v < 128 THEN <<v>>
        ELSE IF v < 16384 THEN
            << BitOr(BitAnd(Sar(v, 7), 127), 128), BitAnd(v, 127) >>
        ELSE IF v < 2097152 THEN
            << BitOr(BitAnd(Sar(v, 14), 127), 128),
               BitOr(BitAnd(Sar(v, 7), 127), 128),
               BitAnd(v, 127) >>
        ELSE
            << BitOr(BitAnd(Sar(v, 22), 127), 128),
               BitOr(BitAnd(Sar(v, 14), 127), 128),
               BitOr(BitAnd(Sar(v, 7), 127), 128),
               BitAnd(v, 255) >>

\* writeInt29 without its lower bound: what C8 rules out
WriteInt29_NoLowerBound(w, value) ==
    IF w.threw # NoThrow THEN w
    ELSE IF value > 536870911 THEN Throw(w, "RangeError")
    ELSE Write(w, Int29Bytes(value))

WriteInt29(w, value) ==
    IF w.threw # NoThrow THEN w
    ELSE IF value > 536870911 \/ value < -268435456 THEN Throw(w, "RangeError")
    ELSE Write(w, Int29Bytes(value))

-----------------------------------------------------------------------------
(* Reader (src/src/reader.ts).  A read returns [d |-> reader after the     *)
(* call, v |-> value returned]; after a throw d.threw names the error and  *)
(* v is Nothing.  d.reads counts the byte reads of the call under way.     *)

Nothing == [t |-> "nothing"]

GetPosition(d) == d.position

GetBytesAvailable(d) == Len(d.data) - d.position

\* a check that refuses a read up to the last byte
CheckAvailable_LastRefused(d, length) == ~ (d.position + length >= Len(d.data))

\* checkAvailable(length): TRUE when it does not throw
CheckAvailable(d, length) == ~ (d.position + length > Len(d.data))

Ret(d, v) == [d |-> d, v |-> v]

Fail(d, err) == [d |-> Throw(d, err), v |-> Nothing]

\* A call is followed for MaxReads byte reads.  A call cut there has not
\* returned: d.threw is Unfinished, which is no error of the program.
MaxReads == 48

Unfinished == "unfinished"

\* this.data[i] outside the array is undefined
UndefinedByte == -1

ElementAt(data, i) == IF i >= 0 /\ i < Len(data) THEN data[i + 1] ELSE UndefinedByte

\* undefined & x, x | undefined: ToInt32(undefined) is 0
ToInt32(v) == IF v = UndefinedByte THEN 0 ELSE v

\* byte < 128: false for undefined
IsBelow128(v) == v # UndefinedByte /\ v < 128

\* this.data.slice(start, end): a negative index counts from the end
Slice(data, start, end) ==
    LET from == IF start < 0 THEN (IF Len(data) + start < 0 THEN 0 ELSE Len(data) + start)
                ELSE IF start > Len(data) THEN Len(data) ELSE start
        to == IF end < 0 THEN (IF Len(data) + end < 0 THEN 0 ELSE Len(data) + end)
              ELSE IF end > Len(data) THEN Len(data) ELSE end
    IN  [i \in 1..(to - from) |-> data[from + i]]

ReadUInt8(d) ==
    IF d.threw # NoThrow THEN Ret(d, Nothing)
    ELSE IF d.reads >= MaxReads THEN Fail(d, Unfinished)
    ELSE IF ~ CheckAvailable(d, 1) THEN Fail(d, "Error")
    ELSE Ret([d EXCEPT !.position = @ + 1, !.reads = @ + 1],
             ElementAt(d.data, d.position))

\* readByte(length, true) and the slice of readUTF8String(length)
ReadBytes(d, length) ==
    IF d.threw # NoThrow THEN Ret(d, Nothing)
    ELSE IF ~ CheckAvailable(d, length) THEN Fail(d, "Error")
    ELSE Ret([d EXCEPT !.position = @ + length],
             Slice(d.data, d.position, d.position + length))

\* checkAvailable(width), then this.view.getXxx(this.position): DataView
\* throws a RangeError for an offset below 0
ReadView(d, width) ==
    IF d.threw = NoThrow /\ CheckAvailable(d, width) /\ d.position < 0
    THEN Fail(d, "RangeError")
    ELSE ReadBytes(d, width)

\* value > 127 ? value - 256 : value
Int8Of(r) ==
    IF r.d.threw # NoThrow THEN r
    ELSE Ret(r.d, IF r.v # UndefinedByte /\ r.v > 127 THEN r.v - 256 ELSE r.v)

ReadInt8(d) == Int8Of(ReadUInt8(d))

\* readByte(length, alwaysReturnArray): one byte as a number, or a slice
ReadByte(d, length, alwaysReturnArray) ==
    IF length = 1 /\ ~ alwaysReturnArray THEN ReadUInt8(d) ELSE ReadBytes(d, length)

\* view.getUint16(0, false) of the two bytes read
UInt16Of(r) ==
    IF r.d.threw # NoThrow THEN r ELSE Ret(r.d, r.v[1] * 256 + r.v[2])

ReadUInt16BE(d) == UInt16Of(ReadView(d, 2))

\* view.getInt16(0, false) of the two bytes read
Int16Of(r) ==
    IF r.d.threw # NoThrow THEN r
    ELSE Ret(r.d, (IF r.v[1] >= 128 THEN r.v[1] - 256 ELSE r.v[1]) * 256 + r.v[2])

ReadInt16BE(d) == Int16Of(ReadView(d, 2))

\* total |= this.readUInt8(), the fourth byte
ReadInt29Fourth(total, r) ==
    IF r.d.threw # NoThrow THEN r ELSE Ret(r.d, BitOr(total, ToInt32(r.v)))

ReadInt29Third(total, r) ==
    IF r.d.threw # NoThrow THEN r
    ELSE IF IsBelow128(r.v) THEN Ret(r.d, BitOr(total, r.v))
    ELSE ReadInt29Fourth(Shl(BitOr(total, BitAnd(ToInt32(r.v), 127)), 8),
                         ReadUInt8(r.d))

ReadInt29Second(total, r) ==
    IF r.d.threw # NoThrow THEN r
    ELSE IF IsBelow128(r.v) THEN Ret(r.d, BitOr(total, r.v))
    ELSE ReadInt29Third(Shl(BitOr(total, BitAnd(ToInt32(r.v), 127)), 7),
                        ReadUInt8(r.d))

\* return -(total & (1 << 28)) | total
SignExtend29(r) ==
    IF r.d.threw # NoThrow THEN r
    ELSE Ret(r.d, BitOr(-BitAnd(r.v, Shl(1, 28)), r.v))

\* the first byte: returned as it is when below 128
ReadInt29First(r) ==
    IF r.d.threw # NoThrow THEN r
    ELSE IF IsBelow128(r.v) THEN r
    ELSE SignExtend29(ReadInt29Second(Shl(BitAnd(ToInt32(r.v), 127), 7),
                                      ReadUInt8(r.d)))

ReadInt29(d) == ReadInt29First(ReadUInt8(d))

\* { isDef: (handle & 1) !== 0, value: handle >> 1 }
AMFHeaderOf(r) ==
    IF r.d.threw # NoThrow THEN r
    ELSE Ret(r.d, [isDef |-> BitAnd(r.v, 1) # 0, value |-> Sar(r.v, 1)])

ReadAMFHeader(d) == AMFHeaderOf(ReadInt29(d))

-----------------------------------------------------------------------------
(* Object construction.                                                    *)

NewEncoder ==
    [chunks |-> <<>>, totalLength |-> 0,
     amf3ObjectReferences |-> <<>>, amf3StringReferences |-> <<>>,
     threw |-> NoThrow, emitted |-> <<>>, names |-> <<>>]

NewDecoder(bytes) ==
    [data |-> bytes, position |-> 0,
     amf3StringReferences |-> <<>>, amf3ObjectReferences |-> <<>>,
     amf3TraitReferences |-> <<>>,
     objects |-> <<>>, threw |-> NoThrow, reads |-> 0]

-----------------------------------------------------------------------------
(* Numbers and strings as bytes.                                           *)

RECURSIVE Log2(_)
Log2(a) == IF a < 2 THEN 0 ELSE 1 + Log2(a \div 2)

\* DataView.setFloat64(0, n, false) for an integral n: sign, biased exponent
\* and the 52 fraction bits, of which an integer below 2^31 uses the top 30
IntToDoubleBits(n) ==
    IF n = 0 THEN <<0, 0, 0, 0, 0, 0, 0, 0>>
    ELSE
        LET a == IF n < 0 THEN -n ELSE n
            e == Log2(a)
            E == e + 1023
            m30 == (a - 2 ^ e) * (2 ^ (30 - e))
        IN  << (IF n < 0 THEN 128 ELSE 0) + (E \div 16),
               (E % 16) * 16 + (m30 \div 67108864),
               (m30 \div 262144) % 256,
               (m30 \div 1024) % 256,
               (m30 \div 4) % 256,
               (m30 % 4) * 64,
               0, 0 >>

\* DataView.getFloat64 as a host number: integral values below 2^31 are
\* "num", every other bit pattern stays a "dbl"
DoubleBitsToNumber(bits) ==
    LET E == (bits[1] % 128) * 16 + (bits[2] \div 16)
        e == E - 1023
        m30 == (bits[2] % 16) * 67108864 + bits[3] * 262144 + bits[4] * 1024
               + bits[5] * 4 + (bits[6] \div 64)
        neg == bits[1] >= 128
    IN  IF bits = <<0, 0, 0, 0, 0, 0, 0, 0>> THEN [t |-> "num", n |-> 0]
        ELSE IF /\ e >= 0 /\ e <= 30
                /\ bits[6] % 64 = 0 /\ bits[7] = 0 /\ bits[8] = 0
                /\ m30 % (2 ^ (30 - e)) = 0
        THEN [t |-> "num",
              n |-> (IF neg THEN -1 ELSE 1) * (2 ^ e + m30 \div (2 ^ (30 - e)))]
        ELSE [t |-> "dbl", bits |-> bits]

\* isFinite(value) for a "dbl"
DblIsFinite(bits) == (bits[1] % 128) * 16 + (bits[2] \div 16) # 2047

DblIsNaN(bits) ==
    /\ ~ DblIsFinite(bits)
    /\ ~ (bits[2] % 16 = 0 /\ \A i \in 3..8 : bits[i] = 0)

\* value % 1 === 0 for a "dbl": no fraction bit below the binary point
DblIsIntegral(bits) ==
    LET e == (bits[1] % 128) * 16 + (bits[2] \div 16) - 1023
        frac == [i \in 1..52 |->
                    IF i <= 4 THEN (bits[2] \div (2 ^ (4 - i))) % 2
                    ELSE (bits[3 + ((i - 5) \div 8)] \div (2 ^ (7 - ((i - 5) % 8)))) % 2]
    IN  /\ DblIsFinite(bits)
        /\ IF e < 0 THEN \A i \in 2..8 : bits[i] = 0 /\ bits[1] % 128 = 0
           ELSE \A i \in 1..52 : i > e => frac[i] = 0

\* TextEncoder.encode of one code point
Utf8OfCodePoint(c) ==
    IF c < 128 THEN <<c>>
    ELSE IF c < 2048 THEN <<192 + (c \div 64), 128 + (c % 64)>>
    ELSE IF c < 65536 THEN
        <<224 + (c \div 4096), 128 + ((c \div 64) % 64), 128 + (c % 64)>>
    ELSE <<240 + (c \div 262144), 128 + ((c \div 4096) % 64),
           128 + ((c \div 64) % 64), 128 + (c % 64)>>

RECURSIVE TextEncode(_)
TextEncode(s) ==
    IF s = <<>> THEN <<>> ELSE Utf8OfCodePoint(Head(s)) \o TextEncode(Tail(s))

\* the WHATWG UTF-8 decoder: a malformed sequence yields U+FFFD and the
\* offending byte is read again as a lead byte
RECURSIVE Utf8Decode(_, _, _, _, _, _)
Utf8Decode(bytes, i, need, cp, lower, upper) ==
    IF i > Len(bytes) THEN (IF need > 0 THEN <<65533>> ELSE <<>>)
    ELSE
        LET b == bytes[i] IN
        IF need = 0 THEN
            IF b < 128 THEN <<b>> \o Utf8Decode(bytes, i + 1, 0, 0, 128, 191)
            ELSE IF b >= 194 /\ b <= 223 THEN
                Utf8Decode(bytes, i + 1, 1, b % 32, 128, 191)
            ELSE IF b >= 224 /\ b <= 239 THEN
                Utf8Decode(bytes, i + 1, 2, b % 16,
                           IF b = 224 THEN 160 ELSE 128,
                           IF b = 237 THEN 159 ELSE 191)
            ELSE IF b >= 240 /\ b <= 244 THEN
                Utf8Decode(bytes, i + 1, 3, b % 8,
                           IF b = 240 THEN 144 ELSE 128,
                           IF b = 244 THEN 143 ELSE 191)
            ELSE <<65533>> \o Utf8Decode(bytes, i + 1, 0, 0, 128, 191)
        ELSE IF b < lower \/ b > upper THEN
            <<65533>> \o Utf8Decode(bytes, i, 0, 0, 128, 191)
        ELSE IF need = 1 THEN
            <<cp * 64 + (b % 64)>> \o Utf8Decode(bytes, i + 1, 0, 0, 128, 191)
        ELSE Utf8Decode(bytes, i + 1, need - 1, cp * 64 + (b % 64), 128, 191)

\* new TextDecoder('utf-8').decode(bytes): a leading byte order mark is dropped
TextDecode(bytes) ==
    LET s == Utf8Decode(bytes, 1, 0, 0, 128, 191)
    IN  IF s # <<>> /\ Head(s) = 65279 THEN Tail(s) ELSE s

WriteDoubleBE(w, value) ==
    WriteChunk(w, IF value.t = "num" THEN IntToDoubleBits(value.n) ELSE value.bits)

\* view.getFloat64(0, false) of the eight bytes read
DoubleOf(r) ==
    IF r.d.threw # NoThrow THEN r ELSE Ret(r.d, DoubleBitsToNumber(r.v))

ReadDoubleBE(d) == DoubleOf(ReadView(d, 8))

\* new TextDecoder('utf-8').decode(bytes) of the bytes read
DecodedOf(r) ==
    IF r.d.threw # NoThrow THEN r ELSE Ret(r.d, TextDecode(r.v))

ReadUTF8String(d, length) == DecodedOf(ReadBytes(d, length))

-----------------------------------------------------------------------------
(* AMF3 types and type inference (AMFType, AMF3 of src/src/encoder.ts).    *)

AMFType(id, name, referencable) ==
    [id |-> id, name |-> name, referencable |-> referencable]

AMF3_UNDEFINED == AMFType(0, "UNDEFINED", FALSE)
AMF3_NULL == AMFType(1, "NULL", FALSE)
AMF3_FALSE == AMFType(2, "FALSE", FALSE)
AMF3_TRUE == AMFType(3, "TRUE", FALSE)
AMF3_INTEGER == AMFType(4, "INTEGER", FALSE)
AMF3_DOUBLE == AMFType(5, "DOUBLE", FALSE)
AMF3_STRING == AMFType(6, "STRING", TRUE)
AMF3_XML_DOC == AMFType(7, "XML_DOC", TRUE)
AMF3_DATE == AMFType(8, "DATE", TRUE)
AMF3_ARRAY == AMFType(9, "ARRAY", TRUE)
AMF3_OBJECT == AMFType(10, "OBJECT", TRUE)
AMF3_XML == AMFType(11, "XML", TRUE)
AMF3_BYTE_ARRAY == AMFType(12, "BYTE_ARRAY", TRUE)
AMF3_VECTOR_INT == AMFType(13, "VECTOR_INT", TRUE)
AMF3_VECTOR_UINT == AMFType(14, "VECTOR_UINT", TRUE)
AMF3_VECTOR_DOUBLE == AMFType(15, "VECTOR_DOUBLE", TRUE)
AMF3_VECTOR_OBJECT == AMFType(16, "VECTOR_OBJECT", TRUE)
AMF3_DICTIONARY == AMFType(17, "DICTIONARY", TRUE)

\* what infer returns when it throws
NoType == AMFType(-1, "", FALSE)

IsNumber(value) == value.t \in {"num", "dbl"}

\* type === 'number' && isFinite(value) && value % 1 === 0
\*   && value < 536870911 && value > -268435456
\* (an integral "dbl" is 2^31 or more in magnitude, so it fails a comparison)
InferInteger(value) ==
    IF value.t = "num" THEN value.n < 536870911 /\ value.n > -268435456
    ELSE /\ DblIsFinite(value.bits) /\ DblIsIntegral(value.bits)
         /\ value.bits[1] >= 128      \* value < 536870911
         /\ value.bits[1] < 128       \* value > -268435456

Infer(h, value) ==
    IF value.t = "null" THEN AMF3_NULL
    ELSE IF value.t = "undef" THEN AMF3_UNDEFINED
    ELSE IF value.t = "forced" THEN value.type
    ELSE IF value.t = "bool" /\ ~ value.b THEN AMF3_FALSE
    ELSE IF value.t = "bool" THEN AMF3_TRUE
    ELSE IF value.t = "str" THEN AMF3_STRING
    ELSE IF IsNumber(value) /\ InferInteger(value) THEN AMF3_INTEGER
    ELSE IF IsNumber(value) THEN AMF3_DOUBLE
    ELSE IF value.t = "ref" /\ h[value.id].k = "date" THEN AMF3_DATE
    ELSE IF value.t = "ref" /\ h[value.id].k = "bytes" THEN AMF3_BYTE_ARRAY
    ELSE IF value.t = "ref" /\ h[value.id].k = "array" THEN AMF3_ARRAY
    ELSE IF value.t = "ref" /\ h[value.id].k \in {"serializable", "externalizable"}
        THEN AMF3_OBJECT
    ELSE IF value.t = "ref" THEN AMF3_ARRAY
    ELSE NoType

-----------------------------------------------------------------------------
(* Host objects.                                                           *)

Str(s) == [t |-> "str", s |-> s]
Ref(id) == [t |-> "ref", id |-> id]
Null == [t |-> "null"]
Undefined == [t |-> "undef"]
Bool(b) == [t |-> "bool", b |-> b]
Num(n) == [t |-> "num", n |-> n]
Dbl(bits) == [t |-> "dbl", bits |-> bits]

\* key.indexOf('__') === 0
IsInternal(key) == Len(key) >= 2 /\ key[1] = 95 /\ key[2] = 95

\* Object.keys(value)
ObjectKeys(o) == [i \in 1..Len(o.f) |-> o.f[i][1]]

HasKey(o, key) == \E i \in 1..Len(o.f) : o.f[i][1] = key

\* value[key]
Get(o, key) ==
    IF HasKey(o, key)
    THEN o.f[CHOOSE i \in 1..Len(o.f) : o.f[i][1] = key][2]
    ELSE Undefined

\* "__class", "__dynamic" and "value"
ValueKey == <<118, 97, 108, 117, 101>>
ClassKey == <<95, 95, 99, 108, 97, 115, 115>>
DynamicKey == <<95, 95, 100, 121, 110, 97, 109, 105, 99>>

\* !v, for the values a field can hold
Falsy(v) ==
    \/ v.t \in {"null", "undef"}
    \/ v.t = "bool" /\ ~ v.b
    \/ v.t = "num" /\ v.n = 0
    \/ v.t = "dbl" /\ DblIsNaN(v.bits)
    \/ v.t = "str" /\ v.s = <<>>

RECURSIVE SelectSeqKeys(_)
SelectSeqKeys(keys) ==
    IF keys = <<>> THEN <<>>
    ELSE IF IsInternal(Head(keys)) THEN SelectSeqKeys(Tail(keys))
    ELSE <<Head(keys)>> \o SelectSeqKeys(Tail(keys))

\* the filter left out: the encoder C14 rules out
GetSerializableKeys_Unfiltered(o) ==
    IF "fields" \in DOMAIN o THEN o.fields ELSE ObjectKeys(o)

\* getSerializableKeys(value): the object's getSerializableFields() when it
\* defines one (o.fields), its own keys otherwise, less the "__" names
GetSerializableKeys(o) ==
    SelectSeqKeys(IF "fields" \in DOMAIN o THEN o.fields ELSE ObjectKeys(o))

\* a comparison that finds nothing equal: the lookup C28 rules out
StrictEquals_Never(a, b) == FALSE

\* a === b as Array.prototype.indexOf compares
StrictEquals(a, b) ==
    /\ a = b
    /\ ~ (a.t = "dbl" /\ DblIsNaN(a.bits))

\* an indexOf that counts from one: the lookup C2 rules out
IndexOf_FromOne(table, value) ==
    IF \E i \in 1..Len(table) : StrictEquals(table[i], value)
    THEN CHOOSE i \in 1..Len(table) :
            /\ StrictEquals(table[i], value)
            /\ \A j \in 1..(i - 1) : ~ StrictEquals(table[j], value)
    ELSE -1

\* table.indexOf(value), zero-based, -1 when absent
IndexOf(table, value) ==
    IF \E i \in 1..Len(table) : StrictEquals(table[i], value)
    THEN (CHOOSE i \in 1..Len(table) :
            /\ StrictEquals(table[i], value)
            /\ \A j \in 1..(i - 1) : ~ StrictEquals(table[j], value)) - 1
    ELSE -1

-----------------------------------------------------------------------------
(* AMFEncoder (src/src/encoder.ts).  h is the host heap the values live    *)
(* in.  e.emitted is history: one entry per tag byte encodeValue wrote,    *)
(* with the value, the offset of the tag byte, whether a reference         *)
(* followed it and the size the table of its type had then.                *)

WriteInlineString(e, value) ==
    LET bytes == TextEncode(value)
    IN  WriteChunk(WriteInt29(e, BitOr(Shl(Len(bytes), 1), 1)), bytes)

WriteByteArray(e, value) ==
    WriteChunk(WriteInt29(e, BitOr(Shl(Len(value.by), 1), 1)), value.by)

Remember(e, realValue, type, isRef, index) ==
    IF e.threw # NoThrow THEN e
    ELSE [e EXCEPT !.emitted = Append(@,
            [value |-> realValue, type |-> type.id, at |-> e.totalLength,
             ref |-> isRef, index |-> index,
             size |-> IF type = AMF3_STRING THEN Len(e.amf3StringReferences)
                      ELSE Len(e.amf3ObjectReferences)])]

\* the test without its second half: the encoder C6 rules out
Referencable_AnyString(type, realValue) == type.referencable

\* type.referencable && realValue !== ''
Referencable(type, realValue) == type.referencable /\ realValue # Str(<<>>)

\* a lookup that finds no string: the encoder C4 rules out
LookupReference_NoString(e, type, realValue) ==
    IF type = AMF3_STRING
    THEN -1
    ELSE IndexOf(e.amf3ObjectReferences, realValue)

\* index = (type === AMF3.STRING ? string table : object table).indexOf(realValue)
LookupReference(e, type, realValue) ==
    IF type = AMF3_STRING
    THEN IndexOf(e.amf3StringReferences, realValue)
    ELSE IndexOf(e.amf3ObjectReferences, realValue)

\* a value never registered: the encoder C15 rules out
PushReference_Never(e, type, realValue) == e

PushReference(e, type, realValue) ==
    IF type = AMF3_STRING
    THEN [e EXCEPT !.amf3StringReferences = Append(@, realValue)]
    ELSE [e EXCEPT !.amf3ObjectReferences = Append(@, realValue)]

RECURSIVE EncodeValue(_, _, _)
RECURSIVE WriteByType(_, _, _, _)
RECURSIVE WriteArray(_, _, _)
RECURSIVE WriteObjectValue(_, _, _)
RECURSIVE WriteElements(_, _, _, _)
RECURSIVE WritePairs(_, _, _, _)
RECURSIVE WriteKeys(_, _, _)
RECURSIVE WriteValues(_, _, _, _, _)
RECURSIVE ExternalizableWrite(_, _, _)

\* for (i ...) this.encodeValue(value[i])
WriteElements(h, e, elements, i) ==
    IF i > Len(elements) \/ e.threw # NoThrow THEN e
    ELSE WriteElements(h, EncodeValue(h, e, elements[i]), elements, i + 1)

\* this.writeInlineString(key) for a field name; e.names is history: the
\* field names written, in order
WriteName(e, key) ==
    IF e.threw # NoThrow THEN e
    ELSE WriteInlineString([e EXCEPT !.names = Append(@, key)], key)

\* for (i ...) { if (key.indexOf('__') === 0) continue;
\*               this.writeInlineString(key); this.encodeValue(value[key]) }
WritePairs(h, e, o, i) ==
    IF i > Len(o.f) \/ e.threw # NoThrow THEN e
    ELSE IF IsInternal(o.f[i][1]) THEN WritePairs(h, e, o, i + 1)
    ELSE WritePairs(h, EncodeValue(h, WriteName(e, o.f[i][1]), o.f[i][2]),
                    o, i + 1)

\* for (i ...) this.writeInlineString(keys[i])
WriteKeys(e, keys, i) ==
    IF i > Len(keys) \/ e.threw # NoThrow THEN e
    ELSE WriteKeys(WriteName(e, keys[i]), keys, i + 1)

\* for (i ...) this.encodeValue(value[keys[i]])
WriteValues(h, e, o, keys, i) ==
    IF i > Len(keys) \/ e.threw # NoThrow THEN e
    ELSE WriteValues(h, EncodeValue(h, e, Get(o, keys[i])), o, keys, i + 1)

WriteArray(h, e, value) ==
    LET o == h[value.id] IN
    IF o.k = "array" THEN
        WriteElements(h,
            WriteInlineString(WriteInt29(e, BitOr(Shl(Len(o.f), 1), 1)), <<>>),
            o.f, 1)
    ELSE
        WriteInlineString(WritePairs(h, WriteInt29(e, 1), o, 1), <<>>)

\* Externalizable.write(encoder): the base class throws; a subclass written
\* as the README's CustomData encodes its value field
ExternalizableWrite(h, e, o) ==
    IF "write" \in DOMAIN o
    THEN EncodeValue(h, e, Get(o, ValueKey))
    ELSE Throw(e, "Error")

WriteObjectValue(h, e, value) ==
    LET o == h[value.id]
        class == Get(o, ClassKey)
    IN
    IF Falsy(class) \/ class = Str(<<>>) THEN
        WriteInlineString(
            WritePairs(h, WriteInt29(WriteInt29(e, 11), 1), o, 1), <<>>)
    ELSE
        LET externalizable == o.k = "externalizable"
            keys == IF externalizable THEN <<>> ELSE GetSerializableKeys(o)
            header == BitOr(BitOr(BitOr(Shl(Len(keys), 4),
                                        Shl(IF externalizable THEN 1 ELSE 0, 2)),
                                  2), 1)
            e1 == WriteInlineString(WriteInt29(e, header), class.s)
        IN
        IF externalizable THEN ExternalizableWrite(h, e1, o)
        ELSE WriteValues(h, WriteKeys(e1, keys, 1), o, keys, 1)

WriteByType(h, e, value, type) ==
    IF e.threw # NoThrow THEN e
    ELSE IF type.id \in {0, 1, 2, 3} THEN e
    ELSE IF type.id = 4 THEN WriteInt29(e, value.n)
    ELSE IF type.id = 5 THEN WriteDoubleBE(e, value)
    ELSE IF type.id = 6 THEN WriteInlineString(e, value.s)
    ELSE IF type.id = 8 THEN
        WriteDoubleBE(WriteInt29(e, 1), h[value.id].tm)
    ELSE IF type.id = 9 THEN WriteArray(h, e, value)
    ELSE IF type.id = 10 THEN WriteObjectValue(h, e, value)
    ELSE IF type.id = 12 THEN WriteByteArray(e, h[value.id])
    ELSE Throw(e, "Error")

EncodeValue(h, e, value) ==
    IF e.threw # NoThrow THEN e
    ELSE
        LET type == Infer(h, value)
            realValue == IF value.t = "forced" THEN value.value ELSE value
        IN
        IF type = NoType THEN Throw(e, "Error")
        ELSE IF Referencable(type, realValue) THEN
            LET index == LookupReference(e, type, realValue) IN
            IF index # -1 THEN
                WriteInt29(
                    WriteByte(Remember(e, realValue, type, TRUE, index), type.id),
                    Shl(index, 1))
            ELSE
                WriteByType(h,
                    WriteByte(
                        Remember(PushReference(e, type, realValue),
                                 realValue, type, FALSE, -1),
                        type.id),
                    realValue, type)
        ELSE
            WriteByType(h,
                WriteByte(Remember(e, realValue, type, FALSE, -1), type.id),
                realValue, type)

\* writeObject(value) / encode(value)
WriteObject(h, e, value) == EncodeValue(h, e, value)

\* clear(): AMFEncoder inherits Writer.clear (the history of the emptied
\* buffer goes with it)
Clear(e) == [ClearWriter(e) EXCEPT !.emitted = <<>>, !.names = <<>>]

-----------------------------------------------------------------------------
(* AMFDecoder (src/src/encoder.ts).  x is the static registry              *)
(* amf3Externalizables.  d.objects holds the objects the decoder has       *)
(* constructed, in construction order; a decoded object value is a Ref     *)
(* into it.  Strings are read as code-point sequences and wrapped by Str   *)
(* where they are returned as values.                                      *)

\* new X(), appended to d.objects; the new object is Ref(Len(d.objects) + 1)
Construct(d, o) == [d EXCEPT !.objects = Append(@, o)]

Newest(d) == Ref(Len(d.objects))

\* "__proto__"
ProtoKey == <<95, 95, 112, 114, 111, 116, 111, 95, 95>>

\* o[key] = v; o['__proto__'] = v goes to the setter of Object.prototype
\* and gives o no field of its own
SetField(o, key, v) ==
    IF key = ProtoKey THEN o
    ELSE IF HasKey(o, key)
    THEN [o EXCEPT !.f = [i \in 1..Len(o.f) |->
                            IF o.f[i][1] = key THEN <<key, v>> ELSE o.f[i]]]
    ELSE [o EXCEPT !.f = Append(@, <<key, v>>)]

Assign(d, ref, key, v) == [d EXCEPT !.objects[ref.id] = SetField(@, key, v)]

\* array.push(v)
Push(d, ref, v) == [d EXCEPT !.objects[ref.id].f = Append(@, v)]

PushObjectReference(d, v) == [d EXCEPT !.amf3ObjectReferences = Append(@, v)]

\* the slot kept as it was: the decoder C3 rules out
ReplaceSlot_Kept(d, idx, dense) == d

\* this.amf3ObjectReferences[idx] = dense (idx counted from 1 here)
ReplaceSlot(d, idx, dense) == [d EXCEPT !.amf3ObjectReferences[idx] = dense]

\* table[index], undefined outside the table
At(table, index) ==
    IF index >= 0 /\ index < Len(table) THEN table[index + 1] ELSE Undefined

\* new Serializable(serializableName, dynamic)
NewSerializable(name, dynamic) ==
    [k |-> "serializable",
     f |-> << <<ClassKey, Str(name)>>, <<DynamicKey, Bool(dynamic)>> >>]

\* new AMFTrait(name, dynamic, externalizable)
AMFTrait(name, dynamic, externalizable) ==
    [name |-> name, dynamic |-> dynamic, externalizable |-> externalizable,
     staticFields |-> <<>>]

\* "flex.messaging.io.ArrayCollection"
ArrayCollectionName ==
    <<102, 108, 101, 120, 46, 109, 101, 115, 115, 97, 103, 105, 110, 103, 46,
      105, 111, 46, 65, 114, 114, 97, 121, 67, 111, 108, 108, 101, 99, 116,
      105, 111, 110>>

\* !ref for a table slot: objects are truthy
FalsySlot(v) == v.t # "ref" /\ Falsy(v)

\* view.getInt32(0, false) of the four bytes read
Int32Of(r) ==
    IF r.d.threw # NoThrow THEN r
    ELSE Ret(r.d, Num((IF r.v[1] >= 128 THEN r.v[1] - 256 ELSE r.v[1]) * 16777216
                      + r.v[2] * 65536 + r.v[3] * 256 + r.v[4]))

ReadInt32BE(d) == Int32Of(ReadView(d, 4))

\* view.getUint32(0, false): values from 2^31 on do not fit a "num" and are
\* kept as the double they are
UInt32Of(r) ==
    IF r.d.threw # NoThrow THEN r
    ELSE IF r.v[1] < 128 THEN
        Ret(r.d, Num(r.v[1] * 16777216 + r.v[2] * 65536 + r.v[3] * 256 + r.v[4]))
    ELSE
        LET m == (r.v[1] - 128) * 16777216 + r.v[2] * 65536 + r.v[3] * 256 + r.v[4]
        IN  Ret(r.d, Dbl(<< 65, 224 + (m \div 134217728),
                            (m \div 524288) % 256, (m \div 2048) % 256,
                            (m \div 8) % 256, (m % 8) * 32, 0, 0 >>))

ReadUInt32BE(d) == UInt32Of(ReadView(d, 4))

\* this.amf3StringReferences.push(str); return str
RegisterString(r) ==
    IF r.d.threw # NoThrow THEN r
    ELSE Ret([r.d EXCEPT !.amf3StringReferences = Append(@, r.v)], r.v)

\* readAMF3String after its header
ReadAMF3StringBody(h) ==
    IF h.d.threw # NoThrow THEN h
    ELSE IF ~ h.v.isDef THEN
        IF h.v.value >= 0 /\ h.v.value < Len(h.d.amf3StringReferences)
        THEN Ret(h.d, h.d.amf3StringReferences[h.v.value + 1])
        ELSE Fail(h.d, "Error")
    ELSE IF h.v.value = 0 THEN Ret(h.d, <<>>)
    ELSE RegisterString(ReadUTF8String(h.d, h.v.value))

ReadAMF3String(d) == ReadAMF3StringBody(ReadAMFHeader(d))

\* this.amf3ObjectReferences.push(o) for the object constructed last
PushNewest(d) == PushObjectReference(d, Newest(d))

\* ... push(o); return o
Registered(d) == Ret(PushNewest(d), Newest(d))

\* a reference that must be an object of the given kind
KindReference(d, ref, kind) ==
    IF ref.t = "ref" /\ d.objects[ref.id].k = kind
    THEN Ret(d, ref)
    ELSE Fail(d, "Error")

\* a reference that must be truthy
ObjectReference(d, ref) ==
    IF FalsySlot(ref) THEN Fail(d, "Error") ELSE Ret(d, ref)

\* new Date(this.readDoubleBE())
NewDate(r) ==
    IF r.d.threw # NoThrow THEN r
    ELSE Registered(Construct(r.d, [k |-> "date", tm |-> r.v]))

ReadAMF3DateBody(h) ==
    IF h.d.threw # NoThrow THEN h
    ELSE IF ~ h.v.isDef
        THEN KindReference(h.d, At(h.d.amf3ObjectReferences, h.v.value), "date")
    ELSE NewDate(ReadDoubleBE(h.d))

ReadAMF3Date(d) == ReadAMF3DateBody(ReadAMFHeader(d))

NewByteArray(r) ==
    IF r.d.threw # NoThrow THEN r
    ELSE Registered(Construct(r.d, [k |-> "bytes", by |-> r.v]))

ReadAMF3ByteArrayBody(h) ==
    IF h.d.threw # NoThrow THEN h
    ELSE IF ~ h.v.isDef
        THEN KindReference(h.d, At(h.d.amf3ObjectReferences, h.v.value), "bytes")
    ELSE NewByteArray(ReadBytes(h.d, h.v.value))

ReadAMF3ByteArray(d) == ReadAMF3ByteArrayBody(ReadAMFHeader(d))

\* for (i < staticKeyLen) trait.staticFields.push(this.readAMF3String())
RECURSIVE ReadStaticFields(_, _, _)
RECURSIVE ReadStaticField(_, _, _)

ReadStaticFields(d, trait, n) ==
    IF n <= 0 \/ d.threw # NoThrow THEN Ret(d, trait)
    ELSE ReadStaticField(ReadAMF3String(d), trait, n)

ReadStaticField(r, trait, n) ==
    IF r.d.threw # NoThrow THEN r
    ELSE ReadStaticFields(r.d, [trait EXCEPT !.staticFields = Append(@, r.v)], n - 1)

\* this.amf3TraitReferences.push(trait); return trait
RegisterTrait(r) ==
    IF r.d.threw # NoThrow THEN r
    ELSE Ret([r.d EXCEPT !.amf3TraitReferences = Append(@, r.v)], r.v)

\* an inline trait after its class name
ReadTraitFields(name, flags) ==
    IF name.d.threw # NoThrow THEN name
    ELSE RegisterTrait(
            ReadStaticFields(name.d,
                AMFTrait(name.v, BitAnd(Sar(flags, 2), 1) = 1,
                         BitAnd(Sar(flags, 1), 1) = 1),
                Sar(flags, 3)))

\* a reference that takes the trait read last: what C22 rules out
ReadAMF3ObjectTrait_Latest(d, flags) ==
    IF BitAnd(flags, 1) = 0 THEN
        IF Sar(flags, 1) >= 0 /\ Sar(flags, 1) < Len(d.amf3TraitReferences)
        THEN Ret(d, d.amf3TraitReferences[Len(d.amf3TraitReferences)])
        ELSE Fail(d, "Error")
    ELSE ReadTraitFields(ReadAMF3String(d), flags)

ReadAMF3ObjectTrait(d, flags) ==
    IF BitAnd(flags, 1) = 0 THEN
        IF Sar(flags, 1) >= 0 /\ Sar(flags, 1) < Len(d.amf3TraitReferences)
        THEN Ret(d, d.amf3TraitReferences[Sar(flags, 1) + 1])
        ELSE Fail(d, "Error")
    ELSE ReadTraitFields(ReadAMF3String(d), flags)

\* decimal digits of a non-negative integer
RECURSIVE Digits(_)
Digits(n) == IF n < 10 THEN <<48 + n>> ELSE Digits(n \div 10) \o <<48 + (n % 10)>>

HexDigit(n) == IF n < 10 THEN 48 + n ELSE 87 + n

\* a string as JSON.stringify quotes it
RECURSIVE JsonEscape(_)
JsonEscape(s) ==
    IF s = <<>> THEN <<>>
    ELSE
        LET c == Head(s) IN
        (IF c = 34 THEN <<92, 34>>
         ELSE IF c = 92 THEN <<92, 92>>
         ELSE IF c = 8 THEN <<92, 98>>
         ELSE IF c = 9 THEN <<92, 116>>
         ELSE IF c = 10 THEN <<92, 110>>
         ELSE IF c = 12 THEN <<92, 102>>
         ELSE IF c = 13 THEN <<92, 114>>
         ELSE IF c < 32 THEN <<92, 117, 48, 48, HexDigit(c \div 16), HexDigit(c % 16)>>
         ELSE <<c>>) \o JsonEscape(Tail(s))

JsonQuote(s) == <<34>> \o JsonEscape(s) \o <<34>>

JsonText(s) == [kind |-> "text", s |-> s]
JsonUndefined == [kind |-> "undefined", s |-> <<>>]
JsonThrow == [kind |-> "throw", s |-> <<>>]

\* JSON.stringify(v) over the decoder's objects: the text, undefined, or a
\* TypeError on a cyclic structure.  The digits of a non-integral number and
\* of a date are not spelled out: such a rendering is the marker -1 (number)
\* or -2 (date) followed by what determines it.
RECURSIVE JsonStringify(_, _, _)
RECURSIVE JsonItems(_, _, _, _, _)
RECURSIVE JsonMembers(_, _, _, _, _)
RECURSIVE JsonMember(_, _, _, _, _, _)

JsonJoinItems(one, rest, first) ==
    IF one.kind = "throw" \/ rest.kind = "throw" THEN JsonThrow
    ELSE JsonText((IF first THEN <<>> ELSE <<44>>)
                  \o (IF one.kind = "undefined" THEN <<110, 117, 108, 108>>
                      ELSE one.s)
                  \o rest.s)

JsonItems(objects, items, i, above, first) ==
    IF i > Len(items) THEN JsonText(<<>>)
    ELSE JsonJoinItems(JsonStringify(objects, items[i], above),
                       JsonItems(objects, items, i + 1, above, FALSE), first)

JsonJoinMembers(name, one, rest, first) ==
    IF rest.kind = "throw" THEN JsonThrow
    ELSE IF one.kind = "undefined" THEN rest
    ELSE JsonText((IF first THEN <<>> ELSE <<44>>)
                  \o JsonQuote(name) \o <<58>> \o one.s \o rest.s)

JsonMember(objects, members, i, above, first, one) ==
    IF one.kind = "throw" THEN JsonThrow
    ELSE JsonJoinMembers(members[i][1], one,
            JsonMembers(objects, members, i + 1, above,
                        first /\ one.kind = "undefined"),
            first)

JsonMembers(objects, members, i, above, first) ==
    IF i > Len(members) THEN JsonText(<<>>)
    ELSE JsonMember(objects, members, i, above, first,
                    JsonStringify(objects, members[i][2], above))

JsonWrap(open, body, close) ==
    IF body.kind = "throw" THEN JsonThrow
    ELSE JsonText(<<open>> \o body.s \o <<close>>)

\* the members JSON.stringify walks: a Uint8Array's are its indices
JsonMembersOf(o) ==
    IF o.k = "bytes"
    THEN [i \in 1..Len(o.by) |-> <<Digits(i - 1), Num(o.by[i])>>]
    ELSE o.f

JsonStringify(objects, v, above) ==
    IF v.t = "undef" THEN JsonUndefined
    ELSE IF v.t = "null" THEN JsonText(<<110, 117, 108, 108>>)
    ELSE IF v.t = "bool" THEN
        JsonText(IF v.b THEN <<116, 114, 117, 101>> ELSE <<102, 97, 108, 115, 101>>)
    ELSE IF v.t = "num" THEN
        JsonText(IF v.n < 0 THEN <<45>> \o Digits(-v.n) ELSE Digits(v.n))
    ELSE IF v.t = "dbl" THEN
        JsonText(IF DblIsFinite(v.bits) THEN <<-1>> \o v.bits
                 ELSE <<110, 117, 108, 108>>)
    ELSE IF v.t = "str" THEN JsonText(JsonQuote(v.s))
    ELSE IF v.id \in above THEN JsonThrow
    ELSE IF objects[v.id].k = "date" THEN
        IF objects[v.id].tm.t = "dbl" /\ ~ DblIsFinite(objects[v.id].tm.bits)
        THEN JsonText(<<110, 117, 108, 108>>)
        ELSE JsonText(<<34, -2>>
                      \o JsonStringify(objects, objects[v.id].tm, {}).s \o <<34>>)
    ELSE IF objects[v.id].k = "array" THEN
        JsonWrap(91, JsonItems(objects, objects[v.id].f, 1, above \cup {v.id}, TRUE), 93)
    ELSE
        JsonWrap(123, JsonMembers(objects, JsonMembersOf(objects[v.id]), 1,
                                  above \cup {v.id}, TRUE), 125)

\* String(undefined), the property name JSON.stringify's undefined becomes
UndefinedName == <<117, 110, 100, 101, 102, 105, 110, 101, 100>>

RECURSIVE Decode(_, _)
RECURSIVE DecodeTagged(_, _)
RECURSIVE ReadByTypeId(_, _, _)
RECURSIVE ReadNamed(_, _, _)
RECURSIVE ReadNamedKey(_, _, _)
RECURSIVE ReadNamedValue(_, _, _, _)
RECURSIVE ReadDense(_, _, _, _)
RECURSIVE ReadDenseItem(_, _, _, _)
RECURSIVE ReadAMF3Array(_, _)
RECURSIVE ReadAMF3ArrayBody(_, _)
RECURSIVE ReadAMF3ArrayNamed(_, _, _)
RECURSIVE ReadAMF3ArrayDense(_, _, _, _)
RECURSIVE ReadAMF3ArrayElements(_, _, _, _)
RECURSIVE ReadStaticValues(_, _, _, _, _)
RECURSIVE ReadStaticValue(_, _, _, _, _)
RECURSIVE ExternalizableRead(_, _, _)
RECURSIVE ExternalizableReadValue(_, _)
RECURSIVE ReadAMF3Object(_, _)
RECURSIVE ReadAMF3ObjectBody(_, _)
RECURSIVE ReadAMF3ObjectFields(_, _)
RECURSIVE ReadAMF3ObjectValues(_, _, _)
RECURSIVE ReadAMF3ObjectDynamic(_, _, _)
RECURSIVE ReadVectorItems(_, _, _, _, _)
RECURSIVE ReadVectorItem(_, _, _, _, _)
RECURSIVE ReadVectorInto(_, _, _, _)
RECURSIVE ReadAMF3Vector(_, _, _)
RECURSIVE ReadAMF3VectorBody(_, _, _)
RECURSIVE ReadAMF3VectorFixed(_, _, _, _)
RECURSIVE ReadDictionaryItems(_, _, _, _)
RECURSIVE ReadDictionaryKey(_, _, _, _)
RECURSIVE ReadDictionaryName(_, _, _, _, _)
RECURSIVE ReadDictionaryValue(_, _, _, _, _)
RECURSIVE ReadDictionaryInto(_, _, _)
RECURSIVE ReadAMF3Dictionary(_, _)
RECURSIVE ReadAMF3DictionaryBody(_, _)
RECURSIVE ReadAMF3DictionaryWeak(_, _, _)

\* while (true) { key = this.readAMF3String(); if (key === '') break;
\*                target[key] = this.decode() }
ReadNamed(x, d, target) == ReadNamedKey(x, ReadAMF3String(d), target)

ReadNamedKey(x, key, target) ==
    IF key.d.threw # NoThrow THEN key
    ELSE IF key.v = <<>> THEN Ret(key.d, target)
    ELSE ReadNamedValue(x, key.v, Decode(x, key.d), target)

ReadNamedValue(x, key, v, target) ==
    IF v.d.threw # NoThrow THEN v
    ELSE ReadNamed(x, Assign(v.d, target, key, v.v), target)

\* for (i < n) dense.push(this.decode())
ReadDense(x, d, dense, n) ==
    IF n <= 0 THEN Ret(d, dense) ELSE ReadDenseItem(x, Decode(x, d), dense, n)

ReadDenseItem(x, v, dense, n) ==
    IF v.d.threw # NoThrow THEN v
    ELSE ReadDense(x, Push(v.d, dense, v.v), dense, n - 1)

ReadAMF3Array(x, d) == ReadAMF3ArrayBody(x, ReadAMFHeader(d))

\* const named = {}; this.amf3ObjectReferences.push(named)
ReadAMF3ArrayBody(x, h) ==
    IF h.d.threw # NoThrow THEN h
    ELSE IF ~ h.v.isDef
        THEN ObjectReference(h.d, At(h.d.amf3ObjectReferences, h.v.value))
    ELSE ReadAMF3ArrayNamed(x,
            PushNewest(Construct(h.d, [k |-> "object", f |-> <<>>])), h.v.value)

\* const idx = this.amf3ObjectReferences.length - 1; the named part
ReadAMF3ArrayNamed(x, d, n) ==
    ReadAMF3ArrayDense(x, ReadNamed(x, d, Newest(d)),
                       Len(d.amf3ObjectReferences), n)

\* if (Object.keys(named).length > 0) return named; const dense = []
ReadAMF3ArrayDense(x, r, idx, n) ==
    IF r.d.threw # NoThrow THEN r
    ELSE IF Len(ObjectKeys(r.d.objects[r.v.id])) > 0 THEN r
    ELSE ReadAMF3ArrayElements(x, Construct(r.d, [k |-> "array", f |-> <<>>]), idx, n)

\* this.amf3ObjectReferences[idx] = dense; the dense part
ReadAMF3ArrayElements(x, d, idx, n) ==
    ReadDense(x, ReplaceSlot(d, idx, Newest(d)), Newest(d), n)

\* for (i < trait.staticFields.length) result[field] = this.decode()
ReadStaticValues(x, d, result, fields, i) ==
    IF i > Len(fields) THEN Ret(d, result)
    ELSE ReadStaticValue(x, Decode(x, d), result, fields, i)

ReadStaticValue(x, v, result, fields, i) ==
    IF v.d.threw # NoThrow THEN v
    ELSE ReadStaticValues(x, Assign(v.d, result, fields[i], v.v),
                          result, fields, i + 1)

\* obj.value = decoder.decode(); return obj
SetValueField(v, obj) ==
    IF v.d.threw # NoThrow THEN v
    ELSE Ret(Assign(v.d, obj, ValueKey, v.v), obj)

\* ext.read(this) of a registered reader written as the README's
\* CustomData.read: a new instance whose value field is decoded
ExternalizableRead(x, d, name) ==
    ExternalizableReadValue(x,
        Construct(d,
            [k |-> "externalizable",
             f |-> << <<ClassKey, Str(x[name])>>, <<DynamicKey, Bool(TRUE)>>,
                      <<ValueKey, Num(0)>> >>,
             write |-> TRUE]))

ExternalizableReadValue(x, d) == SetValueField(Decode(x, d), Newest(d))

\* this.amf3ObjectReferences.push(result); return result
RegisterResult(r) ==
    IF r.d.threw # NoThrow THEN r
    ELSE Ret(PushObjectReference(r.d, r.v), r.v)

ReadAMF3Object(x, d) == ReadAMF3ObjectBody(x, ReadAMFHeader(d))

ReadAMF3ObjectBody(x, h) ==
    IF h.d.threw # NoThrow THEN h
    ELSE IF ~ h.v.isDef
        THEN ObjectReference(h.d, At(h.d.amf3ObjectReferences, h.v.value))
    ELSE ReadAMF3ObjectFields(x, ReadAMF3ObjectTrait(h.d, h.v.value))

ReadAMF3ObjectFields(x, t) ==
    IF t.d.threw # NoThrow THEN t
    ELSE IF t.v.externalizable THEN
        IF t.v.name = ArrayCollectionName THEN RegisterResult(Decode(x, t.d))
        ELSE IF t.v.name \notin DOMAIN x THEN Fail(t.d, "Error")
        ELSE RegisterResult(ExternalizableRead(x, t.d, t.v.name))
    ELSE ReadAMF3ObjectValues(x,
            PushNewest(Construct(t.d, NewSerializable(t.v.name, t.v.dynamic))),
            t.v)

ReadAMF3ObjectValues(x, d, trait) ==
    ReadAMF3ObjectDynamic(x,
        ReadStaticValues(x, d, Newest(d), trait.staticFields, 1), trait)

\* if (trait.dynamic) the name/value pairs up to the empty name
ReadAMF3ObjectDynamic(x, r, trait) ==
    IF r.d.threw # NoThrow THEN r
    ELSE IF trait.dynamic THEN ReadNamed(x, r.d, r.v)
    ELSE r

\* for (i < header.value) result.push(reader.call(this))
ReadVectorItems(x, d, result, typeId, n) ==
    IF n <= 0 THEN Ret(d, result)
    ELSE ReadVectorItem(x,
            IF typeId = 13 THEN ReadInt32BE(d)
            ELSE IF typeId = 14 THEN ReadUInt32BE(d)
            ELSE IF typeId = 15 THEN ReadDoubleBE(d)
            ELSE Decode(x, d),
            result, typeId, n)

ReadVectorItem(x, v, result, typeId, n) ==
    IF v.d.threw # NoThrow THEN v
    ELSE ReadVectorItems(x, Push(v.d, result, v.v), result, typeId, n - 1)

ReadVectorInto(x, d, typeId, n) == ReadVectorItems(x, d, Newest(d), typeId, n)

ReadAMF3Vector(x, d, typeId) == ReadAMF3VectorBody(x, ReadAMFHeader(d), typeId)

ReadAMF3VectorBody(x, h, typeId) ==
    IF h.d.threw # NoThrow THEN h
    ELSE IF ~ h.v.isDef
        THEN ObjectReference(h.d, At(h.d.amf3ObjectReferences, h.v.value))
    ELSE ReadAMF3VectorFixed(x, ReadUInt8(h.d), typeId, h.v.value)

\* the "fixed" byte is read and dropped
ReadAMF3VectorFixed(x, fixed, typeId, n) ==
    IF fixed.d.threw # NoThrow THEN fixed
    ELSE ReadVectorInto(x,
            PushNewest(Construct(fixed.d, [k |-> "array", f |-> <<>>])), typeId, n)

\* for (i < header.value) { key = this.decode();
\*                            result[JSON.stringify(key)] = this.decode() }
ReadDictionaryItems(x, d, result, n) ==
    IF n <= 0 THEN Ret(d, result)
    ELSE ReadDictionaryKey(x, Decode(x, d), result, n)

ReadDictionaryKey(x, key, result, n) ==
    IF key.d.threw # NoThrow THEN key
    ELSE ReadDictionaryName(x, key.d, JsonStringify(key.d.objects, key.v, {}),
                            result, n)

ReadDictionaryName(x, d, name, result, n) ==
    IF name.kind = "throw" THEN Fail(d, "TypeError")
    ELSE ReadDictionaryValue(x, Decode(x, d),
            IF name.kind = "undefined" THEN UndefinedName ELSE name.s,
            result, n)

ReadDictionaryValue(x, v, name, result, n) ==
    IF v.d.threw # NoThrow THEN v
    ELSE ReadDictionaryItems(x, Assign(v.d, result, name, v.v), result, n - 1)

ReadDictionaryInto(x, d, n) == ReadDictionaryItems(x, d, Newest(d), n)

ReadAMF3Dictionary(x, d) == ReadAMF3DictionaryBody(x, ReadAMFHeader(d))

ReadAMF3DictionaryBody(x, h) ==
    IF h.d.threw # NoThrow THEN h
    ELSE IF ~ h.v.isDef
        THEN ObjectReference(h.d, At(h.d.amf3ObjectReferences, h.v.value))
    ELSE ReadAMF3DictionaryWeak(x, ReadUInt8(h.d), h.v.value)

\* the weak-keys byte is read and dropped
ReadAMF3DictionaryWeak(x, weakKeys, n) ==
    IF weakKeys.d.threw # NoThrow THEN weakKeys
    ELSE ReadDictionaryInto(x,
            PushNewest(Construct(weakKeys.d, [k |-> "object", f |-> <<>>])), n)

\* the INTEGER and STRING cases wrap what the reader returns
NumberOf(r) == IF r.d.threw # NoThrow THEN r ELSE Ret(r.d, Num(r.v))

StringOf(r) == IF r.d.threw # NoThrow THEN r ELSE Ret(r.d, Str(r.v))

ReadByTypeId(x, d, typeId) ==
    IF d.threw # NoThrow THEN Ret(d, Nothing)
    ELSE IF typeId = 0 THEN Ret(d, Undefined)
    ELSE IF typeId = 1 THEN Ret(d, Null)
    ELSE IF typeId = 2 THEN Ret(d, Bool(FALSE))
    ELSE IF typeId = 3 THEN Ret(d, Bool(TRUE))
    ELSE IF typeId = 4 THEN NumberOf(ReadInt29(d))
    ELSE IF typeId = 5 THEN ReadDoubleBE(d)
    ELSE IF typeId = 6 THEN StringOf(ReadAMF3String(d))
    ELSE IF typeId = 8 THEN ReadAMF3Date(d)
    ELSE IF typeId = 9 THEN ReadAMF3Array(x, d)
    ELSE IF typeId = 10 THEN ReadAMF3Object(x, d)
    ELSE IF typeId = 12 THEN ReadAMF3ByteArray(d)
    ELSE IF typeId \in {13, 14, 15, 16} THEN ReadAMF3Vector(x, d, typeId)
    ELSE IF typeId = 17 THEN ReadAMF3Dictionary(x, d)
    ELSE Fail(d, "Error")

Decode(x, d) == DecodeTagged(x, ReadUInt8(d))

DecodeTagged(x, typeId) ==
    IF typeId.d.threw # NoThrow THEN typeId
    ELSE ReadByTypeId(x, typeId.d, typeId.v)

-----------------------------------------------------------------------------
(* U29 driver: one writeInt29 on a fresh writer, then one readInt29 by a   *)
(* reader constructed over getBuffer().                                    *)

Spread == 3

U29Edges == {0, 128, 16384, 2097152, 268435456, 536870912, -268435456, -128, -16384, -2097152}

U29Inputs == {e + k : e \in U29Edges, k \in (-Spread)..Spread}

U29Init ==
    /\ heap = <<>>
    /\ amf3Externalizables = <<>>
    /\ encoder = NewEncoder
    /\ decoder = NewDecoder(<<>>)
    /\ returned = Nothing
    /\ arg = Nothing
    /\ history = <<>>
    /\ pc = "writer"

U29Write ==
    /\ pc = "writer"
    /\ \E v \in U29Inputs :
        /\ arg' = Num(v)
        /\ encoder' = WriteInt29(encoder, v)
    /\ pc' = "written"
    /\ UNCHANGED <<heap, amf3Externalizables, decoder, returned, history>>

U29NewReader ==
    /\ pc = "written"
    /\ encoder.threw = NoThrow
    /\ decoder' = NewDecoder(GetBuffer(encoder))
    /\ pc' = "reader"
    /\ UNCHANGED <<heap, amf3Externalizables, encoder, returned, arg, history>>

U29Read ==
    /\ pc = "reader"
    /\ LET r == ReadInt29([decoder EXCEPT !.reads = 0]) IN
        /\ decoder' = r.d
        /\ returned' = IF r.d.threw = NoThrow THEN Num(r.v) ELSE Nothing
    /\ pc' = "read"
    /\ UNCHANGED <<heap, amf3Externalizables, encoder, arg, history>>

U29Next == U29Write \/ U29NewReader \/ U29Read

SpecU29 == U29Init /\ [][U29Next]_vars

\* the length the U29 table gives for a 29-bit pattern
U29Length(v) ==
    IF v < 128 THEN 1 ELSE IF v < 16384 THEN 2 ELSE IF v < 2097152 THEN 3 ELSE 4

\* C7: for every integer n in [-2^28, 2^28 - 1], readInt29 over the bytes
\* writeInt29(n) wrote returns n and consumes exactly those bytes, and the
\* number of bytes is 1, 2, 3 or 4 as n & 0x1FFFFFFF is below 2^7, 2^14,
\* 2^21 or not.
C7_U29RoundTrip ==
    (pc = "read" /\ arg.n >= -268435456 /\ arg.n <= 268435455) =>
        /\ decoder.threw = NoThrow
        /\ returned = arg
        /\ decoder.position = Len(decoder.data)
        /\ Len(decoder.data) = U29Length(BitAnd(arg.n, 536870911))

\* C8 as the specification states it: writeInt29(v) fails with a range
\* error, writing no byte, for every integer v outside [-2^28, 2^28 - 1].
C8_RangeErrorOutsideSigned ==
    (pc = "written" /\ (arg.n < -268435456 \/ arg.n > 268435455)) =>
        /\ encoder.threw = "RangeError"
        /\ encoder.chunks = <<>>
        /\ encoder.totalLength = 0

\* C8 as the code has it: writeInt29(v) fails with a range error, writing
\* no byte, exactly for the integers v outside [-2^28, 2^29 - 1]; every v
\* inside is written in 1 to 4 bytes.
C8_RangeErrorOutsideU29 ==
    pc = "written" =>
        IF arg.n < -268435456 \/ arg.n > 536870911
        THEN /\ encoder.threw = "RangeError"
             /\ encoder.chunks = <<>>
             /\ encoder.totalLength = 0
        ELSE /\ encoder.threw = NoThrow
             /\ Len(encoder.chunks) \in 1..4
             /\ encoder.totalLength = Len(encoder.chunks)

\* C8 happens: a value below -2^28 was refused and nothing was written
C8_Refused ==
    /\ pc = "written"
    /\ arg.n = -268435457
    /\ encoder.threw = "RangeError"
    /\ encoder.chunks = <<>>

-----------------------------------------------------------------------------
(* Header driver: one writeInt29((n << 1) | b) on a fresh writer, then one *)
(* readAMFHeader by a reader constructed over getBuffer().                 *)

HeaderEdges == {0, 64, 8192, 1048576, 134217728, 268435455}

HeaderInputs ==
    {n \in {e + k : e \in HeaderEdges, k \in (-Spread)..Spread} :
        n >= 0 /\ n < 268435456}

Header(n, b) == [t |-> "header", n |-> n, b |-> b]

HeaderInit == U29Init

HeaderWrite ==
    /\ pc = "writer"
    /\ \E n \in HeaderInputs, b \in 0..1 :
        /\ arg' = Header(n, b)
        /\ encoder' = WriteInt29(encoder, BitOr(Shl(n, 1), b))
    /\ pc' = "written"
    /\ UNCHANGED <<heap, amf3Externalizables, decoder, returned, history>>

HeaderRead ==
    /\ pc = "reader"
    /\ LET r == ReadAMFHeader([decoder EXCEPT !.reads = 0]) IN
        /\ decoder' = r.d
        /\ returned' = IF r.d.threw = NoThrow THEN r.v ELSE Nothing
    /\ pc' = "read"
    /\ UNCHANGED <<heap, amf3Externalizables, encoder, arg, history>>

HeaderNext == HeaderWrite \/ U29NewReader \/ HeaderRead

SpecHeader == HeaderInit /\ [][HeaderNext]_vars

\* C24: for every n with 0 <= n < 2^28 and every flag b, readAMFHeader over
\* the bytes of writeInt29((n << 1) | b) returns isDef = (b = 1) and
\* value = n, so the header value read is never negative.
C24_HeaderRoundTrip ==
    pc = "read" =>
        /\ decoder.threw = NoThrow
        /\ returned = [isDef |-> arg.b = 1, value |-> arg.n]
        /\ returned.value >= 0

-----------------------------------------------------------------------------
(* Codec driver: the host holds one value, a fresh encoder encodes it, a   *)
(* fresh decoder over getBuffer() decodes it.                              *)

MaxFields == 2

NameA == <<97>>
NameB == <<98>>
Names == {NameA, NameB}

SlotValues == {Str(NameA), Str(NameB), Str(<<>>), Num(1), Ref(1), Ref(2)}

SeqsUpTo(S, n) == UNION {[1..k -> S] : k \in 0..n}

IsInjective(q) == \A i, j \in 1..Len(q) : q[i] = q[j] => i = j

\* property lists: distinct names, any slot values
Properties(n) ==
    UNION {{[i \in 1..Len(ks) |-> <<ks[i], vs[i]>>] : vs \in [1..Len(ks) -> SlotValues]}
           : ks \in {q \in SeqsUpTo(Names, n) : IsInjective(q)}}

\* what new Serializable(name) sets before the host adds its fields
SerializableProperties(name) ==
    << <<ClassKey, Str(name)>>, <<DynamicKey, Bool(TRUE)>> >>

Containers(n) ==
    {[k |-> "array", f |-> fs] : fs \in SeqsUpTo(SlotValues, n)}
    \cup {[k |-> "object", f |-> ps] : ps \in Properties(n)}
    \cup {[k |-> "serializable", f |-> SerializableProperties(<<>>) \o ps]
            : ps \in Properties(n)}

OuterObjects ==
    Containers(MaxFields)
    \cup {[k |-> "serializable", f |-> SerializableProperties(NameA) \o ps]
            : ps \in Properties(MaxFields)}

InnerObjects ==
    {[k |-> "array", f |-> fs] : fs \in SeqsUpTo(SlotValues, MaxFields - 1)}
    \cup {[k |-> "object", f |-> ps] : ps \in Properties(MaxFields - 1)}
    \cup {[k |-> "date", tm |-> Num(1)], [k |-> "bytes", by |-> <<1, 2>>]}

\* the host's object graphs: object 1 refers to itself and to object 2
Heaps == {<<o1, o2>> : o1 \in OuterObjects, o2 \in InnerObjects}

NumberEdges == {0, 268435456, -268435456, 536870911}

PositiveInfinity == <<127, 240, 0, 0, 0, 0, 0, 0>>
NegativeInfinity == <<255, 240, 0, 0, 0, 0, 0, 0>>
NotANumber == <<127, 248, 0, 0, 0, 0, 0, 0>>
OneAndAHalf == <<63, 248, 0, 0, 0, 0, 0, 0>>

\* values that are not objects
Primitives ==
    {Null, Undefined, Bool(TRUE), Bool(FALSE)}
    \cup {Num(e + k) : e \in NumberEdges, k \in (-Spread)..Spread}
    \cup {Num(2147483647), Num(-2147483647), Num(2097152), Num(-129)}
    \cup {Dbl(PositiveInfinity), Dbl(NegativeInfinity), Dbl(NotANumber), Dbl(OneAndAHalf)}
    \cup {Str(<<>>), Str(NameA), Str(<<233>>), Str(<<97, 8364, 98>>)}

\* what the host passes to writeObject: a primitive, or its object 1
Inputs(h) == IF h = <<>> THEN Primitives ELSE {Ref(1)}

Call(op, value, length) == [op |-> op, value |-> value, length |-> length]

Init ==
    /\ heap \in Heaps \cup {<<>>}
    /\ amf3Externalizables = <<>>
    /\ encoder = NewEncoder
    /\ decoder = NewDecoder(<<>>)
    /\ returned = Nothing
    /\ arg = Nothing
    /\ history = <<>>
    /\ pc = "encoder"

Encode ==
    /\ pc = "encoder"
    /\ \E v \in Inputs(heap) :
        /\ arg' = v
        /\ encoder' = WriteObject(heap, encoder, v)
        /\ history' = Append(history, Call("writeObject", v, encoder'.totalLength))
    /\ pc' = "encoded"
    /\ UNCHANGED <<heap, amf3Externalizables, decoder, returned>>

ConstructDecoder ==
    /\ pc = "encoded"
    /\ encoder.threw = NoThrow
    /\ decoder' = NewDecoder(GetBuffer(encoder))
    /\ pc' = "decoder"
    /\ UNCHANGED <<heap, amf3Externalizables, encoder, returned, arg, history>>

DecodeOne ==
    /\ pc = "decoder"
    /\ LET r == Decode(amf3Externalizables, [decoder EXCEPT !.reads = 0]) IN
        /\ decoder' = r.d
        /\ returned' = r.v
    /\ pc' = "decoded"
    /\ UNCHANGED <<heap, amf3Externalizables, encoder, arg, history>>

Next == Encode \/ ConstructDecoder \/ DecodeOne

Spec == Init /\ [][Next]_vars

-----------------------------------------------------------------------------
(* What the claims are stated with.                                        *)

MaxPath == 3

\* the n bytes the encoder holds from offset at
BytesAt(e, at, n) == SubSeq(e.chunks, at + 1, at + n)

\* the earliest emission of the value that emission i carries
FirstEmission(e, i) ==
    CHOOSE j \in 1..i :
        /\ e.emitted[j].value = e.emitted[i].value
        /\ \A k \in 1..(j - 1) : e.emitted[k].value # e.emitted[i].value

\* emission i is the type byte and the U29 of index << 1, and index is where
\* the table holds the value (tables here stay below 64 entries: one byte)
IsReferenceTo(e, i, table) ==
    LET en == e.emitted[i] IN
    /\ en.ref
    /\ en.index >= 0 /\ en.index < Len(table) /\ en.index < 64
    /\ table[en.index + 1] = en.value
    /\ \A k \in 1..Len(table) : table[k] = en.value => k = en.index + 1
    /\ BytesAt(e, en.at, 2) = <<en.type, 2 * en.index>>

\* the values an object holds, in the order they are serialized
Children(o) ==
    IF o.k = "array" THEN o.f
    ELSE IF o.k \in {"object", "serializable", "externalizable"} THEN
        LET own == SelectSeq(o.f, LAMBDA kv : ~ IsInternal(kv[1]))
        IN  [i \in 1..Len(own) |-> own[i][2]]
    ELSE <<>>

\* the value reached from v by taking the path's child at every step
RECURSIVE Follow(_, _, _)
Follow(objects, v, path) ==
    IF path = <<>> THEN v
    ELSE IF v.t # "ref" THEN Nothing
    ELSE IF Head(path) > Len(Children(objects[v.id])) THEN Nothing
    ELSE Follow(objects, Children(objects[v.id])[Head(path)], Tail(path))

Paths == SeqsUpTo(1..MaxFields, MaxPath)

Cyclic(h) == h # <<>> /\ \E p \in Paths : p # <<>> /\ Follow(h, Ref(1), p) = Ref(1)

\* C3: encoding a value o that contains itself ends, every occurrence of o
\* inside itself being the reference with the index o was registered
\* under, and decoding the bytes gives r with r at every place where o
\* held o.
C3_CyclicRoundTrip ==
    /\ (pc # "encoder" /\ Cyclic(heap)) =>
        /\ encoder.threw = NoThrow
        /\ encoder.emitted[1].value = arg /\ ~ encoder.emitted[1].ref
        /\ encoder.amf3ObjectReferences[1] = arg
        /\ \A i \in 2..Len(encoder.emitted) :
            encoder.emitted[i].value = arg =>
                /\ IsReferenceTo(encoder, i, encoder.amf3ObjectReferences)
                /\ encoder.emitted[i].index = 0
    /\ (pc = "decoded" /\ Cyclic(heap)) =>
        /\ decoder.threw = NoThrow
        /\ returned.t = "ref"
        /\ decoder.position = Len(decoder.data)
        /\ \A p \in Paths :
            Follow(heap, arg, p) = arg => Follow(decoder.objects, returned, p) = returned

\* C3 happens: a = []; a.push(a) was encoded and decoded
C3_SelfHoldingArray ==
    /\ pc = "decoded"
    /\ Len(heap) = 2
    /\ heap[1] = [k |-> "array", f |-> <<Ref(1)>>]
    /\ encoder.chunks = <<9, 3, 1, 9, 0>>
    /\ decoder.objects[returned.id] = [k |-> "array", f |-> <<returned>>]

\* C4: a non-empty string that one encoder meets more than once as a value
\* has its UTF-8 bytes emitted once, at its first occurrence (the type
\* byte, U29(length << 1 | 1), the bytes); every later occurrence is the
\* type byte and U29(index << 1), index being its place in the encoder's
\* string table.
C4_StringReferenceSharing ==
    (pc # "encoder" /\ encoder.threw = NoThrow) =>
        \A i \in 1..Len(encoder.emitted) :
            (encoder.emitted[i].type = 6 /\ encoder.emitted[i].value # Str(<<>>)) =>
                IF i = FirstEmission(encoder, i)
                THEN LET bytes == TextEncode(encoder.emitted[i].value.s) IN
                     /\ ~ encoder.emitted[i].ref
                     /\ BytesAt(encoder, encoder.emitted[i].at, 2 + Len(bytes))
                            = <<6, 2 * Len(bytes) + 1>> \o bytes
                ELSE IsReferenceTo(encoder, i, encoder.amf3StringReferences)

\* C4 happens: ["a", "a"] was encoded, the second "a" as reference 0
C4_SharedString ==
    /\ pc = "encoded"
    /\ Len(heap) = 2
    /\ heap[1] = [k |-> "array", f |-> <<Str(NameA), Str(NameA)>>]
    /\ encoder.chunks = <<9, 5, 1, 6, 3, 97, 6, 0>>
    /\ encoder.amf3StringReferences = <<Str(NameA)>>

\* C5: every string body written inline enters the string table, so that
\* after a message is encoded and decoded the encoder's string table and
\* the decoder's hold the same strings in the same order.
C5_StringTablesAgree ==
    (pc = "decoded" /\ decoder.threw = NoThrow) =>
        decoder.amf3StringReferences
            = [i \in 1..Len(encoder.amf3StringReferences) |->
                    encoder.amf3StringReferences[i].s]

\* C6: the empty string is always written inline, as the type byte and the
\* byte 1, and never enters the encoder's string table; the decoder
\* returns '' for an inline header of length 0 and adds nothing to its
\* table for it.
C6_EmptyStringInline ==
    /\ pc # "encoder" =>
        /\ \A i \in 1..Len(encoder.emitted) :
            encoder.emitted[i].value = Str(<<>>) =>
                /\ ~ encoder.emitted[i].ref
                /\ BytesAt(encoder, encoder.emitted[i].at, 2) = <<6, 1>>
        /\ \A k \in 1..Len(encoder.amf3StringReferences) :
            encoder.amf3StringReferences[k] # Str(<<>>)
    /\ pc = "decoded" =>
        /\ \A k \in 1..Len(decoder.amf3StringReferences) :
            decoder.amf3StringReferences[k] # <<>>
        /\ arg = Str(<<>>) =>
            /\ returned = Str(<<>>)
            /\ decoder.amf3StringReferences = <<>>
            /\ decoder.position = 2
        /\ \A p \in Paths :
            Follow(heap, arg, p) = Str(<<>>)
                => Follow(decoder.objects, returned, p) = Str(<<>>)

\* C6 happens: ["", ""] was encoded and decoded
C6_TwoEmptyStrings ==
    /\ pc = "decoded"
    /\ Len(heap) = 2
    /\ heap[1] = [k |-> "array", f |-> <<Str(<<>>), Str(<<>>)>>]
    /\ encoder.chunks = <<9, 5, 1, 6, 1, 6, 1>>
    /\ decoder.objects[returned.id].f = <<Str(<<>>), Str(<<>>)>>
    /\ decoder.amf3StringReferences = <<>>

\* C9: a number n is written as INTEGER exactly when it is integral and
\* -2^28 <= n <= 2^28 - 1; every other number (integral outside that
\* interval, non-integral, NaN, an infinity) is written as DOUBLE.
C9_IntegerOrDouble ==
    (pc = "encoded" /\ IsNumber(arg)) =>
        /\ encoder.threw = NoThrow
        /\ encoder.chunks[1] =
            IF arg.t = "num" /\ arg.n >= -268435456 /\ arg.n <= 268435455
            THEN 4 ELSE 5

\* the objects reached from v along the paths
ReachedFrom(objects, v) ==
    {Follow(objects, v, p) : p \in Paths} \ {Nothing}

\* v is built from null, undefined, booleans, integers of the 29-bit signed
\* range, strings, dense arrays, plain objects and anonymous Serializables
IsUntyped(h, v) ==
    \A w \in ReachedFrom(h, v) :
        \/ w.t \in {"null", "undef", "bool", "str"}
        \/ w.t = "num" /\ w.n >= -268435456 /\ w.n <= 268435455
        \/ /\ w.t = "ref"
           /\ h[w.id].k \in {"array", "object", "serializable"}
           /\ h[w.id].k = "serializable" => Get(h[w.id], ClassKey) = Str(<<>>)

\* the field names and values an object is serialized with
OwnFields(o) == SelectSeq(o.f, LAMBDA kv : ~ IsInternal(kv[1]))

\* structural equality of a host value and a decoded one: same container
\* kind, same field names, same element order, equal leaves
RECURSIVE SameValue(_, _, _, _, _)
SameValue(h, v, objects, w, seen) ==
    IF v.t # "ref" THEN w = v
    ELSE IF w.t # "ref" THEN FALSE
    ELSE IF <<v.id, w.id>> \in seen THEN TRUE
    ELSE
        LET a == h[v.id]
            b == objects[w.id]
            both == seen \cup {<<v.id, w.id>>}
        IN
        /\ a.k = b.k
        /\ IF a.k = "array" THEN
                /\ Len(a.f) = Len(b.f)
                /\ \A i \in 1..Len(a.f) : SameValue(h, a.f[i], objects, b.f[i], both)
           ELSE IF a.k \in {"object", "serializable"} THEN
                /\ Len(OwnFields(a)) = Len(OwnFields(b))
                /\ \A i \in 1..Len(OwnFields(a)) :
                    /\ OwnFields(a)[i][1] = OwnFields(b)[i][1]
                    /\ SameValue(h, OwnFields(a)[i][2], objects, OwnFields(b)[i][2], both)
           ELSE a = b

\* C1: for every value v built from null, undefined, booleans, integers of
\* the 29-bit signed range, strings, dense arrays, plain objects and
\* anonymous Serializables, a string occurring several times included,
\* decoding the bytes of writeObject(v) with a fresh decoder gives a value
\* structurally equal to v.
C1_UntypedRoundTrip ==
    (pc = "decoded" /\ IsUntyped(heap, arg)) =>
        /\ decoder.threw = NoThrow
        /\ SameValue(heap, arg, decoder.objects, returned, {})

-----------------------------------------------------------------------------
(* Stream driver: one encoder is used for several writeObject calls, with  *)
(* clear() between them at will; a decoder constructed over getBuffer()    *)
(* then decodes value after value.                                         *)

MaxCalls == 3

StreamHeap ==
    << [k |-> "array", f |-> <<Str(NameA), Ref(2)>>],
       [k |-> "object", f |-> << <<NameA, Str(NameB)>> >>] >>

StreamInputs == {Str(NameA), Str(<<>>), Num(1), Ref(1), Ref(2)}

\* the values of the writeObject calls of a history
Written(calls) ==
    LET writes == SelectSeq(calls, LAMBDA c : c.op = "writeObject")
    IN  [i \in 1..Len(writes) |-> writes[i].value]

StreamInit ==
    /\ heap = StreamHeap
    /\ amf3Externalizables = <<>>
    /\ encoder = NewEncoder
    /\ decoder = NewDecoder(<<>>)
    /\ returned = Nothing
    /\ arg = Nothing
    /\ history = <<>>
    /\ pc = "encoder"

StreamWriteObject ==
    /\ pc = "encoder"
    /\ Len(Written(history)) < MaxCalls
    /\ \E v \in StreamInputs :
        /\ arg' = v
        /\ encoder' = WriteObject(heap, encoder, v)
        /\ history' = Append(history, Call("writeObject", v, encoder'.totalLength))
    /\ UNCHANGED <<heap, amf3Externalizables, decoder, returned, pc>>

StreamClear ==
    /\ pc = "encoder"
    /\ GetLength(encoder) > 0
    /\ encoder' = Clear(encoder)
    /\ history' = Append(history, Call("clear", Nothing, 0))
    /\ UNCHANGED <<heap, amf3Externalizables, decoder, returned, arg, pc>>

StreamConstructDecoder ==
    /\ pc = "encoder"
    /\ GetLength(encoder) > 0
    /\ decoder' = NewDecoder(GetBuffer(encoder))
    /\ pc' = "decoder"
    /\ UNCHANGED <<heap, amf3Externalizables, encoder, returned, arg, history>>

StreamDecode ==
    /\ pc = "decoder"
    /\ decoder.threw = NoThrow
    /\ GetBytesAvailable(decoder) > 0
    /\ LET r == Decode(amf3Externalizables, [decoder EXCEPT !.reads = 0]) IN
        /\ decoder' = r.d
        /\ returned' = r.v
    /\ UNCHANGED <<heap, amf3Externalizables, encoder, arg, history, pc>>

StreamNext ==
    StreamWriteObject \/ StreamClear \/ StreamConstructDecoder \/ StreamDecode

SpecStream == StreamInit /\ [][StreamNext]_vars

\* the encoder after writeObject of every value from the i-th on
RECURSIVE WriteAll(_, _, _, _)
WriteAll(h, e, values, i) ==
    IF i > Len(values) THEN e
    ELSE WriteAll(h, WriteObject(h, e, values[i]), values, i + 1)

\* the calls made after the last clear()
SinceClear(calls) ==
    LET last == CHOOSE i \in 1..Len(calls) :
                    /\ calls[i].op = "clear"
                    /\ \A j \in (i + 1)..Len(calls) : calls[j].op # "clear"
    IN  SubSeq(calls, last + 1, Len(calls))

Cleared(calls) == \E i \in 1..Len(calls) : calls[i].op = "clear"

\* C10: clear() leaves the encoder as a newly constructed one: getBuffer()
\* is empty and both reference tables are empty, so the encode calls that
\* follow produce the bytes a new AMFEncoder produces for them.
C10_ClearResets ==
    Cleared(history) =>
        LET fresh == WriteAll(heap, NewEncoder, Written(SinceClear(history)), 1) IN
        /\ GetBuffer(encoder) = GetBuffer(fresh)
        /\ encoder.amf3StringReferences = fresh.amf3StringReferences
        /\ encoder.amf3ObjectReferences = fresh.amf3ObjectReferences

\* the calls a buffer holds: those made after the last clear(), or all
CallsInBuffer(calls) == IF Cleared(calls) THEN SinceClear(calls) ELSE calls

\* the writeObject call, counted within the buffer, that wrote offset at
CallOf(calls, at) ==
    Cardinality({k \in 1..Len(CallsInBuffer(calls)) : CallsInBuffer(calls)[k].length <= at}) + 1

\* C11: the reference tables are per call.  A value that one writeObject
\* call registered is never emitted as a reference by a later writeObject
\* call on the same encoder (every reference an encoder emits points to a
\* full emission of the same call), and what one decode() call registered
\* cannot be resolved by a later decode() call on the same decoder (the
\* decoder's three tables are empty between two calls).
C11_TablesPerCall ==
    /\ \A i \in 1..Len(encoder.emitted) :
        encoder.emitted[i].ref =>
            \E j \in 1..(i - 1) :
                /\ encoder.emitted[j].value = encoder.emitted[i].value
                /\ ~ encoder.emitted[j].ref
                /\ CallOf(history, encoder.emitted[j].at)
                     = CallOf(history, encoder.emitted[i].at)
    /\ (pc = "decoder" /\ decoder.threw = NoThrow /\ GetPosition(decoder) > 0
            /\ GetBytesAvailable(decoder) > 0) =>
        /\ decoder.amf3StringReferences = <<>>
        /\ decoder.amf3ObjectReferences = <<>>
        /\ decoder.amf3TraitReferences = <<>>

\* the number of written values that end at or before offset at
ValuesBefore(calls, at) ==
    Cardinality({k \in 1..Len(calls) : calls[k].length <= at})

\* the value of call j was written by an earlier call as well
WrittenBefore(calls, j) == \E i \in 1..(j - 1) : calls[i].value = calls[j].value

\* the j-th decode() of a stream left the cursor at the end of the j-th
\* value written and returned that value where it is a string, and the
\* entry the encoder's reference names where it is an object written before
Framed(calls, e, d, dNext, result) ==
    LET j == ValuesBefore(calls, d.position) + 1 IN
    /\ dNext.threw = NoThrow
    /\ j <= Len(calls)
    /\ GetPosition(dNext) = calls[j].length
    /\ j = Len(calls) => GetBytesAvailable(dNext) = 0
    /\ calls[j].value.t = "str" => result = calls[j].value
    /\ (calls[j].value.t = "ref" /\ WrittenBefore(calls, j)) =>
            /\ dNext.objects = d.objects
            /\ result = d.amf3ObjectReferences[
                            IndexOf(e.amf3ObjectReferences, calls[j].value) + 1]

\* C27: when values are written by successive writeObject calls on one
\* encoder, with no clear(), every decode() of a decoder over getBuffer()
\* consumes exactly the bytes of the next value: the j-th leaves the cursor
\* at the length the encoder had after the j-th writeObject, the last
\* leaves no byte, and a value emitted as a reference to an entry an
\* earlier value registered is decoded as that entry.
C27_StreamFraming ==
    [][(pc = "decoder" /\ pc' = "decoder" /\ ~ Cleared(history)) =>
            Framed(history, encoder, decoder, decoder', returned')]_vars

-----------------------------------------------------------------------------
(* Decoder driver: the host registers externalizable readers, constructs a *)
(* decoder over bytes of its choosing, which no encoder need have written, *)
(* and decodes one value.  A reader is CustomData-like and is known by the *)
(* class name its read() constructs.                                       *)

MaxRegistrations == 2

Readers == Names

NameC == <<99>>

\* a registry that keeps the first reader of a name: what C20 rules out
Register_KeepFirst(x, className, cls) ==
    [n \in DOMAIN x \cup {className} |-> IF n \in DOMAIN x THEN x[n] ELSE cls]

\* AMFDecoder.register(className, cls)
Register(x, className, cls) ==
    [n \in DOMAIN x \cup {className} |-> IF n = className THEN cls ELSE x[n]]

ByteEdges == (0..18) \cup {97, 127, 128, 255}

\* every buffer of up to two bytes
ShortBuffers == SeqsUpTo(ByteEdges, 2)

\* a string or byte array whose header announces a length of -1 to -7: the
\* cursor moves back, to a place after the start of the enclosing value
Rewinds ==
    {<<t, 255, 255, 255, b>> : t \in {6, 12},
                               b \in {255, 253, 251, 249, 247, 245, 243}}

\* the start of an associative array, a dynamic object, a dense array, an
\* object vector, a dictionary and a typed object with one field, up to the
\* place of the first value
LoopHeads ==
    {<<9, 1, 3, 97>>, <<10, 11, 1, 3, 97>>, <<9, 5, 1>>, <<16, 5, 0>>,
     <<17, 3, 0>>, <<10, 19, 1, 3, 97>>}

LoopBuffers == {h \o r : h \in LoopHeads, r \in Rewinds}

\* one value of every kind a table can hold
FirstValues ==
    {<<8, 1, 0, 0, 0, 0, 0, 0, 0, 0>>, <<12, 5, 1, 2>>, <<9, 1, 1>>,
     <<9, 1, 3, 97, 4, 1, 1>>, <<10, 11, 1, 1>>, <<10, 3, 3, 97>>,
     <<6, 3, 97>>, <<13, 3, 0, 0, 0, 0, 1>>, <<16, 3, 0, 4, 1>>, <<17, 1, 0>>}

ReferencableTags == {6, 8, 9, 10, 12, 13, 14, 15, 16, 17}

\* a dense array of two: a first value, then a reference of some tag to
\* slot 0 (the array), slot 1 (the first value) or slot 2 (no slot)
ReferenceBuffers ==
    {<<9, 5, 1>> \o f \o <<t, 2 * i>> :
        f \in FirstValues, t \in ReferencableTags, i \in 0..2}

\* an object with an inline externalizable trait and what follows its name
ExternalizableBuffers ==
    {<<10, 7>> \o name \o body :
        name \in {<<3>> \o NameA, <<3>> \o NameB, <<3>> \o NameC,
                  <<67>> \o ArrayCollectionName},
        body \in {<<>>, <<1>>, <<4, 1>>, <<6, 3, 97>>}}

\* a complex value in the body of another: an array in a dense array, in a
\* dynamic object, in a typed object, in an object vector and in a
\* dictionary; an array, an object and a date written by an externalizable
\* 'a'; an array of that externalizable and a reference to it, as the
\* encoder writes [c, c] for c = CustomData([])
NestedBuffers ==
    {<<9, 3, 1, 9, 1, 1>>, <<10, 11, 1, 3, 97, 9, 1, 1, 1>>,
     <<10, 19, 3, 98, 3, 97, 9, 1, 1>>, <<16, 3, 0, 9, 1, 1>>,
     <<17, 3, 0, 6, 3, 97, 9, 1, 1>>,
     <<10, 7, 3, 97, 9, 1, 1>>, <<10, 7, 3, 97, 10, 11, 1, 1>>,
     <<10, 7, 3, 97, 8, 1, 0, 0, 0, 0, 0, 0, 0, 0>>,
     <<9, 5, 1, 10, 7, 3, 97, 9, 1, 1, 10, 2>>}

\* objects with an inline trait, as bytes and as the trait they carry: a
\* typed 'a' with static field b, an anonymous dynamic object, an
\* externalizable 'a' and a typed 'b' with static fields a, b
InlineObjects ==
    {[bytes |-> <<10, 19, 3, 97, 3, 98, 4, 1>>,
      trait |-> [AMFTrait(NameA, FALSE, FALSE) EXCEPT !.staticFields = <<NameB>>]],
     [bytes |-> <<10, 11, 1, 1>>,
      trait |-> AMFTrait(<<>>, TRUE, FALSE)],
     [bytes |-> <<10, 7, 3, 97, 4, 1>>,
      trait |-> AMFTrait(NameA, FALSE, TRUE)],
     [bytes |-> <<10, 35, 3, 98, 3, 97, 3, 98, 4, 1, 4, 2>>,
      trait |-> [AMFTrait(NameB, FALSE, FALSE) EXCEPT !.staticFields = <<NameA, NameB>>]]}

\* what follows the header of an object whose trait is a reference
TraitTails == {<<4, 7, 4, 8>>, <<1>>, <<3, 99, 4, 7, 1>>}

\* a dense array of three objects: two with an inline trait, the third with
\* a reference to trait 0, 1 or 2
TraitCases ==
    [first : InlineObjects, second : InlineObjects, index : 0..2, tail : TraitTails]

TraitBuffer(case) ==
    <<9, 7, 1>> \o case.first.bytes \o case.second.bytes
        \o <<10, 4 * case.index + 1>> \o case.tail

TraitBuffers == {TraitBuffer(case) : case \in TraitCases}

\* the associative part of an array, as bytes, as the fields it names and
\* with the number of complex values in it: none, a: 1, a: 1 and b: [],
\* and __proto__: 1
NamedParts ==
    {[bytes |-> <<>>, fields |-> <<>>, nested |-> 0],
     [bytes |-> <<3, 97, 4, 1>>, fields |-> << <<NameA, Num(1)>> >>, nested |-> 0],
     [bytes |-> <<3, 97, 4, 1, 3, 98, 9, 1, 1>>,
      fields |-> << <<NameA, Num(1)>>, <<NameB, Ref(3)>> >>, nested |-> 1],
     [bytes |-> <<19>> \o ProtoKey \o <<4, 1>>,
      fields |-> << <<ProtoKey, Num(1)>> >>, nested |-> 0]}

\* an array announcing 0, 1 or 2 dense elements, its associative part, the
\* empty key, and the elements 5 and 6
ArrayCases == [count : 0..2, named : NamedParts]

ArrayBuffer(case) ==
    <<9, 2 * case.count + 1>> \o case.named.bytes \o <<1, 4, 5, 4, 6>>

ArrayBuffers == {ArrayBuffer(case) : case \in ArrayCases}

DecodeInputs ==
    ShortBuffers \cup LoopBuffers \cup ReferenceBuffers \cup ExternalizableBuffers
        \cup NestedBuffers \cup TraitBuffers \cup ArrayBuffers \cup Rewinds

DecodeInit ==
    /\ heap = <<>>
    /\ amf3Externalizables = <<>>
    /\ encoder = NewEncoder
    /\ decoder = NewDecoder(<<>>)
    /\ returned = Nothing
    /\ arg = Nothing
    /\ history = <<>>
    /\ pc = "registry"

DecoderRegister ==
    /\ pc \in {"registry", "decoder"}
    /\ Len(history) < MaxRegistrations
    /\ \E className \in Names, cls \in Readers :
        /\ amf3Externalizables' = Register(amf3Externalizables, className, cls)
        /\ history' = Append(history,
                [op |-> "register", className |-> className, cls |-> cls])
    /\ UNCHANGED <<heap, encoder, decoder, returned, arg, pc>>

DecoderConstruct ==
    /\ pc = "registry"
    /\ \E data \in DecodeInputs : decoder' = NewDecoder(data)
    /\ pc' = "decoder"
    /\ UNCHANGED <<heap, amf3Externalizables, encoder, returned, arg, history>>

DecodeNext == DecoderRegister \/ DecoderConstruct \/ DecodeOne

SpecDecode == DecodeInit /\ [][DecodeNext]_vars

\* C12: decode() on a new decoder ends for every buffer, returning a value
\* or throwing: a header that announces an impossible length ends in an
\* error and never makes the decoder read the same bytes again and again.
C12_DecodeTerminates ==
    pc = "decoded" => decoder.threw # Unfinished

\* the tag that made the value in slot i of the object table when a buffer
\* of ReferenceBuffers is decoded: the array itself, then the first value
SlotTag(data, i) == IF i = 0 THEN 9 ELSE data[4]

\* C16: a reference of any referencable tag whose index is outside the
\* tag's table, or whose slot holds a value made by another tag, makes
\* decode() throw.
C16_InvalidReferenceRejected ==
    (pc = "decoded" /\ decoder.data \in ReferenceBuffers) =>
        LET tag == decoder.data[Len(decoder.data) - 1]
            index == decoder.data[Len(decoder.data)] \div 2
        IN  IF tag = 6
            THEN index >= Len(decoder.amf3StringReferences)
                    => decoder.threw # NoThrow
            ELSE (\/ index >= Len(decoder.amf3ObjectReferences)
                  \/ SlotTag(decoder.data, index) # tag)
                    => decoder.threw # NoThrow

\* the decoder was given an externalizable trait of a one-letter class name
IsExternalizableCall ==
    /\ pc = "decoded"
    /\ decoder.data \in ExternalizableBuffers
    /\ decoder.data[3] = 3

\* the register calls made for the class name of the trait
RegistrationsOf(calls, c) == SelectSeq(calls, LAMBDA r : r.className = c)

LatestReader(calls, c) == RegistrationsOf(calls, c)[Len(RegistrationsOf(calls, c))].cls

\* the readers that ran: read() constructs one instance per call
Invoked(d) ==
    SelectSeq(d.objects, LAMBDA o : o.k = "externalizable")

SlotIds(d) == [i \in 1..Len(d.amf3ObjectReferences) |-> d.amf3ObjectReferences[i].id]

\* C21: the decoder appends the slot of an array, an object (externalizable
\* objects included), an object vector or a dictionary before it decodes
\* the values of its body, so that its object table lists the complex
\* values in the order of their headers in the stream, which is the order
\* the encoder registered them in.
C21_RegisteredBeforeBody ==
    (pc = "decoded" /\ decoder.data \in NestedBuffers) =>
        \A i, j \in 1..Len(decoder.amf3ObjectReferences) :
            i < j => SlotIds(decoder)[i] < SlotIds(decoder)[j]

IsPrefix(p, q) == Len(p) <= Len(q) /\ p = SubSeq(q, 1, Len(p))

InlineTraits(case) == <<case.first.trait, case.second.trait>>

\* the decoded object w was built with the trait: its class name (for an
\* externalizable, the reader registered under it), its flags, and its
\* static fields first and in order
BuiltWith(d, w, trait, calls) ==
    /\ w.t = "ref"
    /\ IF trait.externalizable
       THEN /\ d.objects[w.id].k = "externalizable"
            /\ Get(d.objects[w.id], ClassKey) = Str(LatestReader(calls, trait.name))
       ELSE /\ d.objects[w.id].k = "serializable"
            /\ Get(d.objects[w.id], ClassKey) = Str(trait.name)
            /\ Get(d.objects[w.id], DynamicKey) = Bool(trait.dynamic)
            /\ IsPrefix(trait.staticFields, ObjectKeys([f |-> OwnFields(d.objects[w.id])]))
            /\ ~ trait.dynamic =>
                    Len(OwnFields(d.objects[w.id])) = Len(trait.staticFields)

\* C22: the decoder's trait table holds the inline traits read, once each
\* and in stream order; an object whose header refers to trait i is built
\* with the class name, flags and static fields of the i-th inline trait;
\* an index outside the table makes decode throw; reading a reference
\* leaves the table as it was.
C22_DecoderTraitTable ==
    pc = "decoded" =>
        \A case \in TraitCases :
            decoder.data = TraitBuffer(case) =>
                /\ IsPrefix(decoder.amf3TraitReferences, InlineTraits(case))
                /\ case.index >= 2 => decoder.threw # NoThrow
                /\ decoder.threw = NoThrow =>
                    /\ decoder.amf3TraitReferences = InlineTraits(case)
                    /\ returned.t = "ref"
                    /\ Len(decoder.objects[returned.id].f) = 3
                    /\ BuiltWith(decoder, decoder.objects[returned.id].f[3],
                                 InlineTraits(case)[case.index + 1], history)

\* typed 'a', typed 'b', then an object of trait 1: a 'b' with a = 7, b = 8
C22_SecondTraitReferenced ==
    /\ pc = "decoded"
    /\ decoder.data = <<9, 7, 1, 10, 19, 3, 97, 3, 98, 4, 1,
                        10, 35, 3, 98, 3, 97, 3, 98, 4, 1, 4, 2, 10, 5, 4, 7, 4, 8>>
    /\ decoder.threw = NoThrow
    /\ Len(decoder.amf3TraitReferences) = 2
    /\ OwnFields(decoder.objects[decoder.objects[returned.id].f[3].id])
            = << <<NameA, Num(7)>>, <<NameB, Num(8)>> >>

\* C23: an inline array with at least one named field decodes to the map
\* of its named fields, none of the announced dense elements is decoded and
\* the cursor is left after the empty key; with no named field it decodes
\* to the dense sequence of the announced number of elements; either way
\* one slot was added to the object table for the array and holds what was
\* returned.
C23_ArrayAsymmetry ==
    pc = "decoded" =>
        \A case \in ArrayCases :
            decoder.data = ArrayBuffer(case) =>
                /\ decoder.threw = NoThrow
                /\ returned.t = "ref"
                /\ decoder.amf3ObjectReferences[1] = returned
                /\ Len(decoder.amf3ObjectReferences) = 1 + case.named.nested
                /\ IF case.named.fields # <<>>
                   THEN /\ decoder.objects[returned.id].k = "object"
                        /\ decoder.objects[returned.id].f = case.named.fields
                        /\ GetPosition(decoder) = 3 + Len(case.named.bytes)
                   ELSE /\ decoder.objects[returned.id].k = "array"
                        /\ decoder.objects[returned.id].f
                                = SubSeq(<<Num(5), Num(6)>>, 1, case.count)
                        /\ GetPosition(decoder) = 3 + 2 * case.count

\* C25: whatever the buffer, the cursor of a decoder that has finished a
\* decode() lies within the buffer: it is at least 0, where the call
\* started, and at most the buffer's length.
C25_CursorInvariant ==
    (pc = "decoded" /\ decoder.threw # Unfinished) =>
        /\ 0 <= GetPosition(decoder)
        /\ GetPosition(decoder) <= Len(decoder.data)

\* no two entries of a table are equal
DuplicateFree(table) ==
    \A i, j \in 1..Len(table) : table[i] = table[j] => i = j

\* the table the references of a type index
TableOf(e, type) ==
    IF type = 6 THEN e.amf3StringReferences ELSE e.amf3ObjectReferences

\* every reference in the buffer carries an index below the size its table
\* had when it was emitted, and the entry there is the value referred to
ReferencesRegistered(e) ==
    \A i \in 1..Len(e.emitted) :
        e.emitted[i].ref =>
            /\ e.emitted[i].index >= 0
            /\ e.emitted[i].index < e.emitted[i].size
            /\ TableOf(e, e.emitted[i].type)[e.emitted[i].index + 1]
                    = e.emitted[i].value

\* C28: over any sequence of calls on one encoder, each of its two
\* reference tables only grows at its end (what it held stays where it
\* was), holds no value twice, and every reference emitted carries an
\* index below the size the table had at that moment, where the value
\* referred to had been registered.
C28_EncoderTableInvariant ==
    [][/\ IsPrefix(encoder.amf3StringReferences, encoder'.amf3StringReferences)
       /\ IsPrefix(encoder.amf3ObjectReferences, encoder'.amf3ObjectReferences)
       /\ DuplicateFree(encoder'.amf3StringReferences)
       /\ DuplicateFree(encoder'.amf3ObjectReferences)
       /\ ReferencesRegistered(encoder')]_vars

\* C28 happens: 'a' was written by three calls, registered once by the
\* first and emitted as reference 0 by the two others
C28_ReferencedTwice ==
    /\ pc = "encoder"
    /\ Written(history) = <<Str(NameA), Str(NameA), Str(NameA)>>
    /\ ~ Cleared(history)
    /\ encoder.amf3StringReferences = <<Str(NameA)>>
    /\ GetBuffer(encoder) = <<6, 3, 97, 6, 0, 6, 0>>
    /\ encoder.emitted[3].ref /\ encoder.emitted[3].size = 1

-----------------------------------------------------------------------------
(* Reader driver: a reader over bytes of the host's choosing, its cursor   *)
(* set anywhere within them, and one call of a primitive after another.    *)
(* An error thrown by a call is caught by the host: decoder.threw shows    *)
(* how the last call ended, and history holds that call alone.             *)

MaxLength == 3

ReaderBytes == {0, 97, 128, 255}

LongBuffer == <<64, 9, 33, 251, 84, 68, 45, 24, 195>>

\* every buffer of up to three bytes, and the buffers of four to nine
ReaderBuffers ==
    SeqsUpTo(ReaderBytes, 3) \cup {SubSeq(LongBuffer, 1, n) : n \in 4..9}

LastCall(op, n) == <<[op |-> op, n |-> n, before |-> GetPosition(decoder)]>>

Caught(d) == [d EXCEPT !.threw = NoThrow, !.reads = 0]

ReaderInit ==
    /\ heap = <<>>
    /\ amf3Externalizables = <<>>
    /\ encoder = NewEncoder
    /\ \E data \in ReaderBuffers : \E pos \in 0..Len(data) :
            decoder = [NewDecoder(data) EXCEPT !.position = pos]
    /\ returned = Nothing
    /\ arg = Nothing
    /\ history = <<>>
    /\ pc = "reader"

Returns(r, op, n) ==
    /\ decoder' = r.d
    /\ returned' = r.v
    /\ history' = LastCall(op, n)
    /\ UNCHANGED <<heap, amf3Externalizables, encoder, arg, pc>>

CallReadUInt8 == pc = "reader" /\ Returns(ReadUInt8(Caught(decoder)), "readUInt8", 1)

CallReadInt8 == pc = "reader" /\ Returns(ReadInt8(Caught(decoder)), "readInt8", 1)

CallReadUInt16BE ==
    pc = "reader" /\ Returns(ReadUInt16BE(Caught(decoder)), "readUInt16BE", 2)

CallReadInt16BE ==
    pc = "reader" /\ Returns(ReadInt16BE(Caught(decoder)), "readInt16BE", 2)

CallReadUInt32BE ==
    pc = "reader" /\ Returns(ReadUInt32BE(Caught(decoder)), "readUInt32BE", 4)

CallReadInt32BE ==
    pc = "reader" /\ Returns(ReadInt32BE(Caught(decoder)), "readInt32BE", 4)

CallReadDoubleBE ==
    pc = "reader" /\ Returns(ReadDoubleBE(Caught(decoder)), "readDoubleBE", 8)

CallReadByte ==
    /\ pc = "reader"
    /\ \E n \in 0..MaxLength, alwaysReturnArray \in BOOLEAN :
            Returns(ReadByte(Caught(decoder), n, alwaysReturnArray), "readByte", n)

CallReadUTF8String ==
    /\ pc = "reader"
    /\ \E n \in 0..MaxLength :
            Returns(ReadUTF8String(Caught(decoder), n), "readUTF8String", n)

ReaderNext ==
    \/ CallReadUInt8 \/ CallReadInt8 \/ CallReadUInt16BE \/ CallReadInt16BE
    \/ CallReadUInt32BE \/ CallReadInt32BE \/ CallReadDoubleBE
    \/ CallReadByte \/ CallReadUTF8String

SpecReader == ReaderInit /\ [][ReaderNext]_vars

\* C13: a reader primitive of width n called with the cursor within the
\* buffer returns and moves the cursor on by exactly n when at least n
\* bytes remain, and otherwise throws and leaves the cursor where it was.
C13_ReadAdvancesOrThrows ==
    (pc = "reader" /\ history # <<>>) =>
        IF Len(decoder.data) - history[1].before >= history[1].n
        THEN /\ decoder.threw = NoThrow
             /\ GetPosition(decoder) = history[1].before + history[1].n
        ELSE /\ decoder.threw = "Error"
             /\ GetPosition(decoder) = history[1].before

\* a double read from offset 1 to the last byte of the nine
C13_Witness ==
    /\ pc = "reader" /\ history # <<>>
    /\ history[1].op = "readDoubleBE"
    /\ decoder.threw = NoThrow
    /\ GetPosition(decoder) = 9 /\ GetBytesAvailable(decoder) = 0
    /\ returned.t = "dbl"

-----------------------------------------------------------------------------
(* Field driver: the codec driver over objects that hold fields named with *)
(* a leading "__" of the host's own, and Serializables that define         *)
(* getSerializableFields().                                                *)

MaxNames == 3

\* "__h"
NameHidden == <<95, 95, 104>>

FieldNames == {NameA, NameB, NameHidden}

\* the i-th field holds i
NumberedFields(ks) == [i \in 1..Len(ks) |-> <<ks[i], Num(i)>>]

FieldLists ==
    {NumberedFields(ks) : ks \in {q \in SeqsUpTo(FieldNames, MaxNames) : IsInjective(q)}}

\* what getSerializableFields() may return
FieldFilters == SeqsUpTo(FieldNames, MaxNames - 1)

FieldObjects ==
    {[k |-> "object", f |-> ps] : ps \in FieldLists}
    \cup {[k |-> "serializable", f |-> SerializableProperties(name) \o ps]
            : name \in {<<>>, NameA}, ps \in FieldLists}
    \cup {[k |-> "serializable", f |-> SerializableProperties(name) \o ps,
           fields |-> fs]
            : name \in {<<>>, NameA}, ps \in FieldLists, fs \in FieldFilters}

FieldsInit ==
    /\ heap \in {<<o>> : o \in FieldObjects}
    /\ amf3Externalizables = <<>>
    /\ encoder = NewEncoder
    /\ decoder = NewDecoder(<<>>)
    /\ returned = Nothing
    /\ arg = Nothing
    /\ history = <<>>
    /\ pc = "encoder"

SpecFields == FieldsInit /\ [][Next]_vars

NonInternal(keys) == SelectSeq(keys, LAMBDA key : ~ IsInternal(key))

\* the object has a class name and defines getSerializableFields()
IsFiltered(o) ==
    /\ "fields" \in DOMAIN o
    /\ Get(o, ClassKey) # Str(<<>>)

-----------------------------------------------------------------------------
(* Forced-type driver: the codec driver over a dense array of two values,  *)
(* each plain or wrapped in a ForcedTypeValue, the wrapped value being one *)
(* the forced type can carry.                                              *)

Forced(value, type) == [t |-> "forced", value |-> value, type |-> type]

FieldA == << <<NameA, Num(1)>> >>

\* object 2: a date, a byte array, {a: 1}, [1] and a Serializable 'a'
ForcedObjects ==
    {[k |-> "date", tm |-> Num(1)], [k |-> "bytes", by |-> <<1, 2>>],
     [k |-> "object", f |-> FieldA], [k |-> "array", f |-> <<Num(1)>>],
     [k |-> "serializable", f |-> SerializableProperties(NameA) \o FieldA]}

\* the types that can carry object 2
CarriersOf(o) ==
    IF o.k = "date" THEN {AMF3_DATE}
    ELSE IF o.k = "bytes" THEN {AMF3_BYTE_ARRAY}
    ELSE IF o.k = "array" THEN {AMF3_ARRAY}
    ELSE {AMF3_ARRAY, AMF3_OBJECT}

ForcedValues(o) ==
    {Forced(Num(n), type) : n \in {1, -1, 300}, type \in {AMF3_INTEGER, AMF3_DOUBLE}}
    \cup {Forced(Dbl(OneAndAHalf), AMF3_DOUBLE), Forced(Num(268435456), AMF3_DOUBLE)}
    \cup {Forced(Str(s), AMF3_STRING) : s \in {<<>>, NameA}}
    \cup {Forced(Num(1), type) :
            type \in {AMF3_UNDEFINED, AMF3_NULL, AMF3_FALSE, AMF3_TRUE}}
    \cup {Forced(Ref(2), type) : type \in CarriersOf(o)}

PlainValues == {Num(1), Str(NameA), Ref(2)}

ForcedHeaps ==
    UNION {{<< [k |-> "array", f |-> <<x, y>>], o >> :
                x \in ForcedValues(o) \cup PlainValues,
                y \in ForcedValues(o) \cup PlainValues}
           : o \in ForcedObjects}

ForcedInit ==
    /\ heap \in ForcedHeaps
    /\ amf3Externalizables = <<>>
    /\ encoder = NewEncoder
    /\ decoder = NewDecoder(<<>>)
    /\ returned = Nothing
    /\ arg = Nothing
    /\ history = <<>>
    /\ pc = "encoder"

SpecForced == ForcedInit /\ [][Next]_vars

\* the value a slot carries
Underlying(v) == IF v.t = "forced" THEN v.value ELSE v

\* the bytes that follow the tag when value v is written in full as type
\* id, written out for the values of this driver
ExpectedBody(h, v, id) ==
    IF id \in {0, 1, 2, 3} THEN <<>>
    ELSE IF id = 4 THEN Int29Bytes(v.n)
    ELSE IF id = 5 THEN (IF v.t = "num" THEN IntToDoubleBits(v.n) ELSE v.bits)
    ELSE IF id = 6 THEN <<2 * Len(TextEncode(v.s)) + 1>> \o TextEncode(v.s)
    ELSE IF id = 8 THEN <<1>> \o IntToDoubleBits(h[v.id].tm.n)
    ELSE IF id = 12 THEN <<2 * Len(h[v.id].by) + 1>> \o h[v.id].by
    ELSE IF id = 9 /\ h[v.id].k = "array" THEN <<3, 1, 4, 1>>
    ELSE IF id = 9 THEN <<1, 3, 97, 4, 1, 1>>
    ELSE IF h[v.id].k = "serializable" THEN <<19, 3, 97, 3, 97, 4, 1>>
    ELSE <<11, 1, 3, 97, 4, 1, 1>>

\* the slot's value is one that a table holds when the slot is written
Registers(h, v) ==
    Infer(h, v).referencable /\ Underlying(v) # Str(<<>>)

\* tag and body of the first slot, written in full
ExpectedFirst(h) ==
    <<Infer(h, h[1].f[1]).id>>
        \o ExpectedBody(h, Underlying(h[1].f[1]), Infer(h, h[1].f[1]).id)

\* tag and body of the second slot: a reference when the first slot has
\* registered the value it carries (strings are slot 0 of their table,
\* object 2 is slot 1 of the object table, after the array)
ExpectedSecond(h) ==
    IF /\ Registers(h, h[1].f[1]) /\ Registers(h, h[1].f[2])
       /\ Underlying(h[1].f[1]) = Underlying(h[1].f[2])
    THEN <<Infer(h, h[1].f[2]).id, IF Underlying(h[1].f[2]).t = "str" THEN 0 ELSE 2>>
    ELSE <<Infer(h, h[1].f[2]).id>>
            \o ExpectedBody(h, Underlying(h[1].f[2]), Infer(h, h[1].f[2]).id)

\* C15: a ForcedTypeValue(v, t) is written as the tag t.id and the body of
\* v under type t, whatever type inference would give v; no wrapper is in a
\* reference table, and for a referencable t it is v that is looked up and
\* registered.
C15_ForcedType ==
    pc # "encoder" =>
        /\ encoder.threw = NoThrow
        /\ GetBuffer(encoder) = <<9, 5, 1>> \o ExpectedFirst(heap) \o ExpectedSecond(heap)
        /\ \A i \in 1..Len(encoder.amf3StringReferences) :
                encoder.amf3StringReferences[i].t = "str"
        /\ \A i \in 1..Len(encoder.amf3ObjectReferences) :
                encoder.amf3ObjectReferences[i].t = "ref"
        /\ \A i \in 1..2 :
                Registers(heap, heap[1].f[i]) =>
                    \E k \in 1..Len(encoder.emitted) :
                        /\ encoder.emitted[k].value = Underlying(heap[1].f[i])
                        /\ encoder.emitted[k].type = Infer(heap, heap[1].f[i]).id
                        /\ LookupReference(encoder, Infer(heap, heap[1].f[i]),
                                           Underlying(heap[1].f[i])) # -1

\* [ForcedTypeValue(1, DOUBLE), 1]: 05 and the eight bytes of 1.0, then 04 01
C15_ForcedDouble ==
    /\ pc = "encoded"
    /\ heap[1].f = <<Forced(Num(1), AMF3_DOUBLE), Num(1)>>
    /\ GetBuffer(encoder) = <<9, 5, 1, 5, 63, 240, 0, 0, 0, 0, 0, 0, 4, 1>>

-----------------------------------------------------------------------------
(* Typed-object driver: the codec driver over Serializables with a class   *)
(* name, alone and in a dense array of two, and over anonymous             *)
(* Serializables constructed with dynamic = false.                         *)

TypedValues == {Str(NameA), Str(NameB), Num(1)}

TypedProperties ==
    UNION {{[i \in 1..Len(ks) |-> <<ks[i], vs[i]>>] : vs \in [1..Len(ks) -> TypedValues]}
           : ks \in {q \in SeqsUpTo(Names, MaxFields) : IsInjective(q)}}

\* new Serializable(name, dynamic) and the fields the host adds
NewSerializableWith(name, dynamic, ps) ==
    [k |-> "serializable",
     f |-> << <<ClassKey, Str(name)>>, <<DynamicKey, Bool(dynamic)>> >> \o ps]

TypedObjects ==
    {NewSerializableWith(name, TRUE, ps) : name \in Names, ps \in TypedProperties}

StaticAnonymousObjects ==
    {NewSerializableWith(<<>>, FALSE, ps) : ps \in TypedProperties}

TypedHeaps ==
    {<<o>> : o \in TypedObjects \cup StaticAnonymousObjects}
    \cup {<< [k |-> "array", f |-> <<Ref(2), Ref(2)>>], o >> : o \in TypedObjects}
    \cup {<< [k |-> "array", f |-> <<Ref(2), Ref(3)>>], o, p >> :
                o \in TypedObjects, p \in TypedObjects}

TypedInit ==
    /\ heap \in TypedHeaps
    /\ amf3Externalizables = <<>>
    /\ encoder = NewEncoder
    /\ decoder = NewDecoder(<<>>)
    /\ returned = Nothing
    /\ arg = Nothing
    /\ history = <<>>
    /\ pc = "encoder"

SpecTyped == TypedInit /\ [][Next]_vars

\* the full emission of the object at place id of the heap
EmissionOf(e, id) ==
    CHOOSE k \in 1..Len(e.emitted) :
        e.emitted[k].value = Ref(id) /\ ~ e.emitted[k].ref

\* C17: when one encoder writes two typed objects of one class name and one
\* list of field names, the second object's header is a reference to the
\* trait of the first (U29 of index << 2 | 1, here 01), and its class name
\* and field names are not written again.
C17_TraitReferenceOnEncode ==
    (/\ pc # "encoder" /\ encoder.threw = NoThrow
     /\ Len(heap) = 3
     /\ Get(heap[2], ClassKey) = Get(heap[3], ClassKey)
     /\ ObjectKeys(heap[2]) = ObjectKeys(heap[3])) =>
        BytesAt(encoder, encoder.emitted[EmissionOf(encoder, 3)].at, 2) = <<10, 1>>

\* C18: an object without a class name whose __dynamic is false is written
\* as tag 0A, a header of an inline, non-dynamic trait (0x03 when it has no
\* static field) and the empty class name 01, and not as 0A 0B with
\* key/value pairs.
C18_StaticAnonymousObject ==
    (/\ pc # "encoder" /\ encoder.threw = NoThrow
     /\ Len(heap) = 1
     /\ Get(heap[1], ClassKey) = Str(<<>>)
     /\ Get(heap[1], DynamicKey) = Bool(FALSE)) =>
        /\ BytesAt(encoder, 0, 1) = <<10>>
        /\ BytesAt(encoder, 1, 1)[1] % 16 = 3
        /\ BytesAt(encoder, 2, 1) = <<1>>

\* the decoded value w is a Serializable of o's class with o's fields
TypedMatches(o, objects, w) ==
    /\ w.t = "ref"
    /\ objects[w.id].k = "serializable"
    /\ Get(objects[w.id], ClassKey) = Get(o, ClassKey)
    /\ OwnFields(objects[w.id]) = OwnFields(o)

\* C19: a Serializable with a class name and fields holding numbers and
\* strings (equal to each other, to the class name or to a field name or
\* not), alone or in a dense array, decodes to an object of that class
\* with the same fields in the same order holding the same values.
C19_TypedRoundTrip ==
    (pc = "decoded" /\ Get(heap[Len(heap)], ClassKey) # Str(<<>>)) =>
        /\ decoder.threw = NoThrow
        /\ IF Len(heap) = 1 THEN TypedMatches(heap[1], decoder.objects, returned)
           ELSE /\ returned.t = "ref"
                /\ decoder.objects[returned.id].k = "array"
                /\ Len(decoder.objects[returned.id].f) = 2
                /\ \A i \in 1..2 :
                        TypedMatches(heap[heap[1].f[i].id], decoder.objects,
                                     decoder.objects[returned.id].f[i])

-----------------------------------------------------------------------------
(* Failed-encode driver: the codec driver over values whose encoding      *)
(* throws, passed to writeObject alone or held by a dense array of two:   *)
(* a ForcedTypeValue of a type writeByType does not implement or of an    *)
(* integer outside the U29 range, and a function, for which AMF3.infer    *)
(* finds no type.                                                         *)

\* function () {}
Function == [t |-> "function"]

UnimplementedTypes ==
    {AMF3_XML_DOC, AMF3_XML, AMF3_VECTOR_INT, AMF3_VECTOR_UINT,
     AMF3_VECTOR_DOUBLE, AMF3_VECTOR_OBJECT, AMF3_DICTIONARY}

\* object 2 is the array [1]
FailingValues ==
    {Forced(Ref(2), type) : type \in UnimplementedTypes}
    \cup {Forced(Num(n), AMF3_INTEGER) : n \in {536870912, -268435457}}
    \cup {Function}

FailingHeaps ==
    {<< [k |-> "array", f |-> <<x, y>>], [k |-> "array", f |-> <<Num(1)>>] >> :
        x \in FailingValues \cup PlainValues,
        y \in FailingValues \cup PlainValues}

FailingInit ==
    /\ heap \in FailingHeaps
    /\ amf3Externalizables = <<>>
    /\ encoder = NewEncoder
    /\ decoder = NewDecoder(<<>>)
    /\ returned = Nothing
    /\ arg = Nothing
    /\ history = <<>>
    /\ pc = "encoder"

\* writeObject of the array, or of its first element alone
EncodeFailing ==
    /\ pc = "encoder"
    /\ \E v \in {Ref(1), heap[1].f[1]} :
        /\ arg' = v
        /\ encoder' = WriteObject(heap, encoder, v)
        /\ history' = Append(history, Call("writeObject", v, encoder'.totalLength))
    /\ pc' = "encoded"
    /\ UNCHANGED <<heap, amf3Externalizables, decoder, returned>>

FailingNext == EncodeFailing \/ ConstructDecoder \/ DecodeOne

SpecFailing == FailingInit /\ [][FailingNext]_vars

\* C26: a writeObject that throws on a new encoder leaves it as it was: no
\* byte in the buffer, a length of 0 and both reference tables empty.
C26_FailedEncodeAtomic ==
    (pc = "encoded" /\ encoder.threw # NoThrow) =>
        /\ GetBuffer(encoder) = <<>>
        /\ GetLength(encoder) = 0
        /\ encoder.amf3StringReferences = <<>>
        /\ encoder.amf3ObjectReferences = <<>>

====
